---- MODULE Spec2Model ----
(***************************************************************************)
(* ParkGuard API: the recurring-window evaluator (rule_engine.py), the     *)
(* decision engine (decision_engine.py) and the violation estimator        *)
(* (violations.py), with the rule builders they are fed by.                *)
(*                                                                         *)
(* Python values are represented as follows.                               *)
(*   str            a TLA+ string; characters are its substrings of        *)
(*                  length one (SubSeq(s, i, i)).                          *)
(*   Optional[T]    a sequence of length <= 1: None is << >>, a value v    *)
(*                  is << v >>.                                            *)
(*   set[int]       a set of integers.                                     *)
(*   datetime       [day, sec, us]: a wall-clock day number (day 0 is a    *)
(*                  Monday), the second of that day, the microsecond.      *)
(*   time           [hour, minute, second].                                *)
(*   timedelta      [days, seconds, microseconds], normalised as Python    *)
(*                  does (0 <= seconds < 86400, 0 <= microseconds < 10^6), *)
(*                  so that a duration is negative iff days < 0.           *)
(***************************************************************************)
EXTENDS Integers, Sequences, FiniteSets, TLC

VARIABLES
    \* --- rule_engine.parse_days_spec call ---
    days_arg,        \* Optional[str]: the days_spec argument
    days_result,     \* Optional[set[int]]: the returned set, None before the call
    \* --- rule_engine.evaluate_recurring_window call ---
    now,             \* [aware, dt, utcoffset]: the `now` argument
    win_days,        \* Optional[str]: days_spec
    win_start,       \* Optional[str]: start_time
    win_end,         \* Optional[str]: end_time
    evaluation,      \* Optional[RestrictionWindowEvaluation]
    \* --- one evaluation: rules, enrichment, decision, summary ---
    fine_bands,      \* the lru_cache of _load_fine_bands: None until the first call
    rules,           \* list[ParkingRule] of the evaluation
    phase,           \* "collect" | "enriched" | "decided" | "summarized"
    decision,        \* Optional[dict] returned by derive_parking_decision
    violation_summary, \* Optional[ViolationSummary]
    \* --- sign_parser.parse_regulation_record call (it reads `now` too) ---
    reg,             \* the raw record: each key is None (absent) or Some(str)
    vehicle,         \* VehicleContext
    classified,      \* Optional[ParkingRule]: the returned rule
    \* --- threads calling _load_fine_bands through its lru_cache ---
    catalog_file,    \* the state of data/nyc_fines.json on disk
    thread_pc,       \* thread -> position in the lru_cache wrapper
    thread_loaded,   \* thread -> Optional outcome of the loader body it ran
    thread_result,   \* thread -> Optional outcome its call ended with
    loads,           \* how many times the loader body has read the file
    \* --- cache_store.TTLCache (http_json_cache) ---
    store,           \* _store: key -> Optional[_CacheEntry]
    clock,           \* datetime.now(UTC), in seconds
    last_set,        \* history: key -> the entry of the latest effective set
                     \* since the latest clear, None when there is none
    got,             \* Optional: the latest get, when no set or clear has
                     \* been called since: its key, the clock it read, the
                     \* value it returned
    \* --- threads calling one TTLCache concurrently ---
    cache_pc,        \* thread -> the call it is in and the clock it has read
    hits,            \* _hits
    misses,          \* _misses
    expirations,     \* _expirations
    gets_done,       \* history: how many get calls have returned
    lock,            \* _lock: 0 when free, else the thread that holds it
    \* --- hydrant_service.build_hydrant_rules call ---
    hydrant_args,    \* the arguments and what lookup_fn returns
    hydrant_rules,   \* Optional[list[ParkingRule]]: the returned rules
    \* --- the /parking-status endpoint ---
    endpoint_decision \* Optional[dict] returned by main._derive_parking_decision

classifierVars == << reg, vehicle, classified >>
loaderVars == << catalog_file, thread_pc, thread_loaded, thread_result, loads >>
cacheVars == << store, clock, last_set, got >>
counterVars == << cache_pc, hits, misses, expirations, gets_done, lock >>
hydrantVars == << hydrant_args, hydrant_rules >>

vars == << days_arg, days_result, now, win_days, win_start, win_end, evaluation,
           fine_bands, rules, phase, decision, violation_summary,
           classifierVars, loaderVars, cacheVars, counterVars, hydrantVars,
           endpoint_decision >>

None == << >>
Some(v) == << v >>

\* Python truthiness of an Optional[str]: None and "" are falsy.
TruthyStr(o) == o # None /\ o[1] # ""

(***************************************************************************)
(* str methods                                                             *)
(***************************************************************************)
Chr(s, i) == SubSeq(s, i, i)

UpperAlphabet == "ABCDEFGHIJKLMNOPQRSTUVWXYZ"
LowerAlphabet == "abcdefghijklmnopqrstuvwxyz"

IsSpace(c) == c \in {" ", "\t", "\n"}
IsDigit(c) == c \in {"0", "1", "2", "3", "4", "5", "6", "7", "8", "9"}

LowerChr(c) ==
    IF \E i \in 1..26 : Chr(UpperAlphabet, i) = c
    THEN Chr(LowerAlphabet, CHOOSE i \in 1..26 : Chr(UpperAlphabet, i) = c)
    ELSE c

UpperChr(c) ==
    IF \E i \in 1..26 : Chr(LowerAlphabet, i) = c
    THEN Chr(UpperAlphabet, CHOOSE i \in 1..26 : Chr(LowerAlphabet, i) = c)
    ELSE c

RECURSIVE lower(_)
lower(s) == IF s = "" THEN "" ELSE LowerChr(Chr(s, 1)) \o lower(SubSeq(s, 2, Len(s)))

RECURSIVE upper(_)
upper(s) == IF s = "" THEN "" ELSE UpperChr(Chr(s, 1)) \o upper(SubSeq(s, 2, Len(s)))

RECURSIVE lstrip(_)
lstrip(s) == IF s # "" /\ IsSpace(Chr(s, 1)) THEN lstrip(SubSeq(s, 2, Len(s))) ELSE s

RECURSIVE rstrip(_)
rstrip(s) == IF s # "" /\ IsSpace(Chr(s, Len(s))) THEN rstrip(SubSeq(s, 1, Len(s) - 1)) ELSE s

strip(s) == rstrip(lstrip(s))

StartsWith(s, p) == Len(p) <= Len(s) /\ SubSeq(s, 1, Len(p)) = p

\* `sub in s`
Contains(s, sub) == \E i \in 1..(Len(s) - Len(sub) + 1) : SubSeq(s, i, i + Len(sub) - 1) = sub

\* s.replace(old, new), old non-empty: left to right, non-overlapping.
RECURSIVE replace(_, _, _)
replace(s, old, new) ==
    IF s = "" THEN ""
    ELSE IF StartsWith(s, old) THEN new \o replace(SubSeq(s, Len(old) + 1, Len(s)), old, new)
    ELSE Chr(s, 1) \o replace(SubSeq(s, 2, Len(s)), old, new)

\* s.split(sep), sep one character: the list of the fields between separators.
RECURSIVE SplitFrom(_, _, _)
SplitFrom(s, sep, field) ==
    IF s = "" THEN << field >>
    ELSE IF Chr(s, 1) = sep THEN << field >> \o SplitFrom(SubSeq(s, 2, Len(s)), sep, "")
    ELSE SplitFrom(SubSeq(s, 2, Len(s)), sep, field \o Chr(s, 1))

split(s, sep) == SplitFrom(s, sep, "")

\* s.split(sep, 1) for a string that contains sep: the text before the first
\* separator and the whole text after it.
split1(s, sep) ==
    LET i == CHOOSE k \in 1..Len(s) : Chr(s, k) = sep /\ \A j \in 1..(k - 1) : Chr(s, j) # sep
    IN  << SubSeq(s, 1, i - 1), SubSeq(s, i + 1, Len(s)) >>

(***************************************************************************)
(* rule_engine.py: parse_days_spec                                         *)
(***************************************************************************)
DAY_TO_INDEX ==
    [ tok \in { "mon", "monday", "tue", "tues", "tuesday", "wed", "weds", "wednesday",
                "thu", "thur", "thurs", "thursday", "fri", "friday", "sat", "saturday",
                "sun", "sunday" } |->
        CASE tok \in {"mon", "monday"} -> 0
          [] tok \in {"tue", "tues", "tuesday"} -> 1
          [] tok \in {"wed", "weds", "wednesday"} -> 2
          [] tok \in {"thu", "thur", "thurs", "thursday"} -> 3
          [] tok \in {"fri", "friday"} -> 4
          [] tok \in {"sat", "saturday"} -> 5
          [] tok \in {"sun", "sunday"} -> 6 ]

Weekdays == {0, 1, 2, 3, 4}

\* A faulty variant of DaysOfPart: a range whose start lies after its end in
\* the week is not wrapped across the week boundary.
DaysOfPart_NoWrap(part) ==
    IF Contains(part, "-")
    THEN LET toks == split1(part, "-")
             start_token == strip(toks[1])
             end_token == strip(toks[2])
         IN  IF start_token \in DOMAIN DAY_TO_INDEX /\ end_token \in DOMAIN DAY_TO_INDEX
             THEN DAY_TO_INDEX[start_token]..DAY_TO_INDEX[end_token]
             ELSE {}
    ELSE IF part \in DOMAIN DAY_TO_INDEX THEN {DAY_TO_INDEX[part]} ELSE {}

\* The days one comma-separated part contributes (lines 63-77).
DaysOfPart(part) ==
    IF Contains(part, "-")
    THEN LET toks == split1(part, "-")
             start_token == strip(toks[1])
             end_token == strip(toks[2])
         IN  IF start_token \in DOMAIN DAY_TO_INDEX /\ end_token \in DOMAIN DAY_TO_INDEX
             THEN LET start_idx == DAY_TO_INDEX[start_token]
                      end_idx == DAY_TO_INDEX[end_token]
                  IN  IF start_idx <= end_idx
                      THEN start_idx..end_idx
                      ELSE (start_idx..6) \cup (0..end_idx)
             ELSE {}
    ELSE IF part \in DOMAIN DAY_TO_INDEX THEN {DAY_TO_INDEX[part]} ELSE {}

\* A faulty variant of parse_days_spec: the parts' days are returned as they
\* are, without the Monday-to-Friday default for an empty result.
parse_days_spec_NoDefault(days_spec) ==
    IF ~TruthyStr(days_spec) THEN Weekdays
    ELSE LET raw == lower(strip(days_spec[1])) IN
         IF raw \in {"daily", "everyday", "all", "all days"} THEN 0..6
         ELSE IF raw \in {"weekdays", "mon-fri"} THEN Weekdays
         ELSE IF raw \in {"weekends", "sat-sun"} THEN {5, 6}
         ELSE LET normalized == replace(replace(replace(replace(raw, "&", ","), "/", ","),
                                                " and ", ","), ";", ",")
                  fields == split(normalized, ",")
                  parts == { strip(fields[i]) : i \in 1..Len(fields) } \ {""}
              IN  UNION { DaysOfPart(p) : p \in parts }

parse_days_spec(days_spec) ==
    IF ~TruthyStr(days_spec) THEN Weekdays
    ELSE LET raw == lower(strip(days_spec[1])) IN
         IF raw \in {"daily", "everyday", "all", "all days"} THEN 0..6
         ELSE IF raw \in {"weekdays", "mon-fri"} THEN Weekdays
         ELSE IF raw \in {"weekends", "sat-sun"} THEN {5, 6}
         ELSE LET normalized == replace(replace(replace(replace(raw, "&", ","), "/", ","),
                                                " and ", ","), ";", ",")
                  fields == split(normalized, ",")
                  parts == { strip(fields[i]) : i \in 1..Len(fields) } \ {""}
                  result == UNION { DaysOfPart(p) : p \in parts }
              IN  IF result # {} THEN result ELSE Weekdays

(***************************************************************************)
(* rule_engine.py: parse_time_value (datetime.strptime on the four         *)
(* formats "%H:%M", "%H:%M:%S", "%I:%M %p", "%I %p")                       *)
(***************************************************************************)
DigitVal(c) == CHOOSE d \in 0..9 : Chr("0123456789", d + 1) = c

\* The number of characters a strptime directive consumes at the head of s
\* (0: no match). The directive's regular expression tries its alternatives
\* in order: H is 2[0-3]|[0-1]\d|\d, M is [0-5]\d|\d, S is 6[0-1]|[0-5]\d|\d,
\* I is 1[0-2]|0[1-9]|[1-9].
DirectiveLen(d, s) ==
    LET c1 == IF Len(s) >= 1 THEN Chr(s, 1) ELSE ""
        c2 == IF Len(s) >= 2 THEN Chr(s, 2) ELSE ""
        two(firsts, seconds) == c1 \in firsts /\ c2 \in seconds
        digits == {"0", "1", "2", "3", "4", "5", "6", "7", "8", "9"}
    IN  CASE d = "H" -> IF two({"2"}, {"0", "1", "2", "3"}) \/ two({"0", "1"}, digits) THEN 2
                        ELSE IF c1 \in digits THEN 1 ELSE 0
          [] d = "M" -> IF two({"0", "1", "2", "3", "4", "5"}, digits) THEN 2
                        ELSE IF c1 \in digits THEN 1 ELSE 0
          [] d = "S" -> IF two({"6"}, {"0", "1"}) \/ two({"0", "1", "2", "3", "4", "5"}, digits) THEN 2
                        ELSE IF c1 \in digits THEN 1 ELSE 0
          [] d = "I" -> IF two({"1"}, {"0", "1", "2"}) \/ two({"0"}, digits \ {"0"}) THEN 2
                        ELSE IF c1 \in (digits \ {"0"}) THEN 1 ELSE 0

NumberOf(s) == IF Len(s) = 1 THEN DigitVal(Chr(s, 1)) ELSE 10 * DigitVal(Chr(s, 1)) + DigitVal(Chr(s, 2))

\* Match the items of a format against the whole of s; the fields found, or
\* None when the format does not match (strptime raises ValueError).
\* An item is a directive "H" | "M" | "S" | "I" | "p", the literal ":" or
\* " " (white space in a format matches \s+).
RECURSIVE MatchFormat(_, _, _)
MatchFormat(items, s, found) ==
    IF items = << >> THEN (IF s = "" THEN Some(found) ELSE None)
    ELSE LET it == Head(items)
             rest == Tail(items)
         IN  CASE it = ":" ->
                    IF StartsWith(s, ":") THEN MatchFormat(rest, SubSeq(s, 2, Len(s)), found) ELSE None
               [] it = " " ->
                    IF s # "" /\ IsSpace(Chr(s, 1)) THEN MatchFormat(rest, lstrip(s), found) ELSE None
               [] it = "p" ->
                    IF Len(s) >= 2 /\ lower(SubSeq(s, 1, 2)) \in {"am", "pm"}
                    THEN MatchFormat(rest, SubSeq(s, 3, Len(s)),
                                     [found EXCEPT !.p = lower(SubSeq(s, 1, 2))])
                    ELSE None
               [] OTHER ->
                    LET n == DirectiveLen(it, s) IN
                    IF n = 0 THEN None
                    ELSE MatchFormat(rest, SubSeq(s, n + 1, Len(s)),
                                     [found EXCEPT ![it] = NumberOf(SubSeq(s, 1, n))])

NoFields == [H |-> 0, M |-> 0, S |-> 0, I |-> 0, p |-> ""]

\* The time of the fields a format found: None when the format did not match
\* (strptime raises ValueError) or found a second of 60 or 61, which the
\* datetime constructor rejects with ValueError.
TimeOfMatch(items, m) ==
    IF m = None THEN None
    ELSE IF m[1].S > 59 THEN None
    ELSE IF "I" \in { items[i] : i \in 1..Len(items) }
    THEN Some([hour |-> (m[1].I % 12) + (IF m[1].p = "pm" THEN 12 ELSE 0),
               minute |-> m[1].M, second |-> m[1].S])
    ELSE Some([hour |-> m[1].H, minute |-> m[1].M, second |-> m[1].S])

\* datetime.strptime(candidate, fmt).time(), None on ValueError
strptime_time(candidate, items) == TimeOfMatch(items, MatchFormat(items, candidate, NoFields))

TimeFormats ==
    << << "H", ":", "M" >>,
       << "H", ":", "M", ":", "S" >>,
       << "I", ":", "M", " ", "p" >>,
       << "I", " ", "p" >> >>

\* The loop of lines 87-92 from format i on: the first format that parses.
RECURSIVE TryFormats(_, _, _)
FirstParsed(parsed, candidate, i, fallback) ==
    IF parsed # None THEN parsed[1] ELSE TryFormats(candidate, i + 1, fallback)

TryFormats(candidate, i, fallback) ==
    IF i > Len(TimeFormats) THEN fallback
    ELSE FirstParsed(strptime_time(candidate, TimeFormats[i]), candidate, i, fallback)

parse_time_value(value, fallback) ==
    IF ~TruthyStr(value) THEN fallback
    ELSE TryFormats(upper(strip(value[1])), 1, fallback)

MkTime(h, m) == [hour |-> h, minute |-> m, second |-> 0]

(***************************************************************************)
(* datetime / timedelta arithmetic. After line 104 every datetime of       *)
(* evaluate_recurring_window carries the same tzinfo object, so Python     *)
(* compares and subtracts them as wall-clock values.                       *)
(***************************************************************************)
SecondsPerDay == 24 * 60 * 60
MicrosPerSecond == 1000 * 1000

weekday(dt) == dt.day % 7

\* dt + timedelta(days=n)
AddDays(dt, n) == [dt EXCEPT !.day = dt.day + n]

\* dt + timedelta(seconds=n)
AddSeconds(dt, n) ==
    LET total == dt.sec + n IN
    [dt EXCEPT !.day = dt.day + (total \div SecondsPerDay), !.sec = total % SecondsPerDay]

\* a < b, a <= b
DtLess(a, b) ==
    \/ a.day < b.day
    \/ a.day = b.day /\ a.sec < b.sec
    \/ a.day = b.day /\ a.sec = b.sec /\ a.us < b.us

DtLessEq(a, b) == DtLess(a, b) \/ a = b

\* a - b as a normalised timedelta
DtSub(a, b) ==
    LET us == a.us - b.us
        secs == (a.sec - b.sec) + (us \div MicrosPerSecond)
    IN  [ days |-> (a.day - b.day) + (secs \div SecondsPerDay),
          seconds |-> secs % SecondsPerDay,
          microseconds |-> us % MicrosPerSecond ]

\* now.astimezone(tz) if now.tzinfo else now.replace(tzinfo=tz)  (line 104):
\* an aware instant is moved by the zone's UTC offset at that instant, a
\* naive one is taken as local wall-clock time already.
LocalNow(n) == IF n.aware THEN AddSeconds(n.dt, n.utcoffset) ELSE n.dt

(***************************************************************************)
(* rule_engine.py: evaluate_recurring_window                               *)
(***************************************************************************)
DEFAULT_TZ == "America/New_York"

\* A faulty variant of build_window: an end that is not after the start is
\* left on the anchor's day.
build_window_NoRollover(anchor, start_t, end_t) ==
    << [day |-> anchor.day,
        sec |-> start_t.hour * 3600 + start_t.minute * 60 + start_t.second,
        us |-> 0],
       [day |-> anchor.day,
        sec |-> end_t.hour * 3600 + end_t.minute * 60 + end_t.second,
        us |-> 0] >>

\* build_window (lines 110-125)
build_window(anchor, start_t, end_t) ==
    LET start_dt == [day |-> anchor.day,
                     sec |-> start_t.hour * 3600 + start_t.minute * 60 + start_t.second,
                     us |-> 0]
        end_dt == [day |-> anchor.day,
                   sec |-> end_t.hour * 3600 + end_t.minute * 60 + end_t.second,
                   us |-> 0]
    IN  IF DtLessEq(end_dt, start_dt)
        THEN << start_dt, AddDays(end_dt, 1) >>
        ELSE << start_dt, end_dt >>

\* A faulty variant of ScanOffsets: the scan stops after six days ahead, before
\* it comes back to the weekday of the reference.
ScanOffsets_OneWeek == 0..6

\* The offsets of the scan `for offset in range(0, 8)` (line 139).
ScanOffsets == 0..7

\* A faulty variant of NextStartScan: the first active day of the scan is
\* taken even when its window start is already behind local_now.
RECURSIVE NextStartScan_AnyStart(_, _, _, _, _)
NextStartScan_AnyStart(local_now, active_days, start_t, end_t, offset) ==
    IF offset \notin ScanOffsets THEN None
    ELSE IF weekday(AddDays(local_now, offset)) \in active_days
    THEN Some(build_window(AddDays(local_now, offset), start_t, end_t)[1])
    ELSE NextStartScan_AnyStart(local_now, active_days, start_t, end_t, offset + 1)

\* Lines 139-146 from `offset` on: the start of the first day of the scan that
\* is active and whose window start is not before local_now; None when the
\* scan finds none.
RECURSIVE NextStartScan(_, _, _, _, _)
NextStartScan(local_now, active_days, start_t, end_t, offset) ==
    IF offset \notin ScanOffsets THEN None
    ELSE IF /\ weekday(AddDays(local_now, offset)) \in active_days
            /\ DtLessEq(local_now, build_window(AddDays(local_now, offset), start_t, end_t)[1])
    THEN Some(build_window(AddDays(local_now, offset), start_t, end_t)[1])
    ELSE NextStartScan(local_now, active_days, start_t, end_t, offset + 1)

\* Lines 149-151: the scan's result, or the defensive fallback (tomorrow at
\* the start time, seconds dropped).
NextStartOr(scan, local_now, start_t) ==
    IF scan # None THEN scan[1]
    ELSE [day |-> local_now.day + 1,
          sec |-> start_t.hour * 3600 + start_t.minute * 60,
          us |-> 0]

\* A faulty variant of ActiveWindow: the window's end is taken as part of
\* the window.
ActiveWindow_EndInclusive(local_now, active_days, today) ==
    IF /\ weekday(local_now) \in active_days
       /\ DtLessEq(today[1], local_now)
       /\ DtLessEq(local_now, today[2])
    THEN Some(today)
    ELSE None

\* Lines 128-135: today's window when it is active now.
ActiveWindow(local_now, active_days, today) ==
    IF /\ weekday(local_now) \in active_days
       /\ DtLessEq(today[1], local_now)
       /\ DtLess(local_now, today[2])
    THEN Some(today)
    ELSE None

\* Lines 153-168: the countdown and the returned evaluation. `current` is
\* Some(<<current_start, current_end>>) when active_now, None otherwise.
WindowResult(local_now, current, next_start) ==
    [ active_now |-> current # None,
      next_start |-> next_start,
      current_start |-> IF current # None THEN Some(current[1][1]) ELSE None,
      current_end |-> IF current # None THEN Some(current[1][2]) ELSE None,
      countdown |-> IF current # None THEN DtSub(current[1][2], local_now)
                    ELSE DtSub(next_start, local_now),
      countdown_mode |-> IF current # None THEN "until_end" ELSE "until_start",
      timezone |-> DEFAULT_TZ ]

EvaluateAt(local_now, active_days, start_t, end_t) ==
    WindowResult(local_now,
                 ActiveWindow(local_now, active_days, build_window(local_now, start_t, end_t)),
                 NextStartOr(NextStartScan(local_now, active_days, start_t, end_t, 0),
                             local_now, start_t))

evaluate_recurring_window(n, days_spec, start_time, end_time) ==
    EvaluateAt(LocalNow(n),
               parse_days_spec(days_spec),
               parse_time_value(start_time, MkTime(6, 0)),
               parse_time_value(end_time, MkTime(9, 0)))

(***************************************************************************)
(* schemas.py: ParkingRule (the fields the rule builders below set and the *)
(* decision engine and the violation estimator read)                       *)
(***************************************************************************)
ParkingRule(type, description, valid, active_now, time_left, reason) ==
    [ type |-> type, description |-> description, fine |-> None,
      time_left |-> time_left, active_now |-> active_now, severity |-> None,
      valid |-> valid, reason |-> reason, source |-> "test",
      violation_estimate |-> None ]

\* meter_parser.py: parse_meter_record. `status` is the record's "status"
\* value, None when the key is absent (meter.get("status", "") is then "").
parse_meter_record(status, meter_hours) ==
    LET meter_status == lower(IF status = None THEN "" ELSE status[1])
        meter_valid == meter_status = "active"
    IN  [ type |-> "metered",
          description |-> IF meter_hours = None THEN "Pay & Display" ELSE meter_hours[1],
          fine |-> None, time_left |-> None,
          active_now |-> Some(meter_valid),
          severity |-> Some(IF meter_valid THEN "low" ELSE "info"),
          valid |-> meter_valid,
          reason |-> IF meter_valid THEN None ELSE Some("Inactive or outside operating hours"),
          source |-> "NYC Parking Meters",
          violation_estimate |-> None ]

\* A faulty variant of FallbackRule: a record with a fine is not valid.
FallbackRule_FinedInvalid(rule_type, description) ==
    LET fine == IF Contains(rule_type, "standing") \/ Contains(rule_type, "parking") THEN 65 ELSE 0
    IN  [ type |-> rule_type, description |-> description, fine |-> Some(fine),
          time_left |-> None, active_now |-> None,
          severity |-> Some(IF fine # 0 THEN "high" ELSE "low"),
          valid |-> fine = 0, reason |-> None, source |-> "NYC DOT Sign",
          violation_estimate |-> None ]

\* sign_parser.py: the catch-all at the end of parse_regulation_record
\* (lines 247-255), for a record that triggered no category. rule_type is
\* the lower-cased order_type.
FallbackRule(rule_type, description) ==
    LET fine == IF Contains(rule_type, "standing") \/ Contains(rule_type, "parking") THEN 65 ELSE 0
    IN  [ type |-> rule_type, description |-> description, fine |-> Some(fine),
          time_left |-> None, active_now |-> None,
          severity |-> Some(IF fine # 0 THEN "high" ELSE "low"),
          valid |-> TRUE, reason |-> None, source |-> "NYC DOT Sign",
          violation_estimate |-> None ]

(***************************************************************************)
(* decision_engine.py: derive_parking_decision                             *)
(***************************************************************************)
Max(a, b) == IF a >= b THEN a ELSE b

\* `x or y` for an Optional[str] x and a str y
StrOr(x, y) == IF TruthyStr(x) THEN x[1] ELSE y

\* bool(rule.active_now) for an Optional[bool]
ActiveNow(rule) == rule.active_now = Some(TRUE)

\* A faulty variant of MatchedBranch: the last branch takes a meter whether
\* or not it is valid.
MatchedBranch_AnyMeter(rule) ==
    IF rule.type = "street_cleaning" /\ ActiveNow(rule) THEN 1
    ELSE IF rule.type \in {"loading_only", "truck_loading_only"} /\ ~rule.valid THEN 2
    ELSE IF rule.type \in {"taxi_only", "fhv_only"} /\ ~rule.valid THEN 3
    ELSE IF rule.type \in {"fire_zone", "emergency_access", "official_vehicle_only",
                           "hydrant_proximity"} /\ ~rule.valid THEN 4
    ELSE IF rule.type = "hydrant_uncertain" THEN 5
    ELSE IF rule.type \in {"no_standing", "no parking"} /\ ~rule.valid THEN 6
    ELSE IF /\ rule.type \in {"street_cleaning", "no_standing"}
            /\ ~ActiveNow(rule)
            /\ TruthyStr(rule.time_left) THEN 7
    ELSE IF rule.type = "metered" THEN 8
    ELSE 0

\* The first branch of the loop body (lines 12-50) the rule matches, 1..8 in
\* source order; 0 when it matches none.
MatchedBranch(rule) ==
    IF rule.type = "street_cleaning" /\ ActiveNow(rule) THEN 1
    ELSE IF rule.type \in {"loading_only", "truck_loading_only"} /\ ~rule.valid THEN 2
    ELSE IF rule.type \in {"taxi_only", "fhv_only"} /\ ~rule.valid THEN 3
    ELSE IF rule.type \in {"fire_zone", "emergency_access", "official_vehicle_only",
                           "hydrant_proximity"} /\ ~rule.valid THEN 4
    ELSE IF rule.type = "hydrant_uncertain" THEN 5
    ELSE IF rule.type \in {"no_standing", "no parking"} /\ ~rule.valid THEN 6
    ELSE IF /\ rule.type \in {"street_cleaning", "no_standing"}
            /\ ~ActiveNow(rule)
            /\ TruthyStr(rule.time_left) THEN 7
    ELSE IF rule.type = "metered" /\ rule.valid THEN 8
    ELSE 0

BlockedBranches == {1, 2, 3, 4, 6}
CautionBranches == {5, 7, 8}

\* The reason the matched branch appends.
BranchReason(rule, branch) ==
    CASE branch = 1 -> StrOr(rule.reason, "Street cleaning active now")
      [] branch \in {2, 3, 4} -> StrOr(rule.reason, rule.description)
      [] branch = 5 -> StrOr(rule.reason, "Possible hydrant nearby. Check manually.")
      [] branch = 6 -> rule.description
      [] branch = 7 -> StrOr(rule.reason,
                             replace(rule.type, "_", " ") \o " starts in " \o rule.time_left[1])
      [] branch = 8 -> "Meter payment required"

\* A faulty variant of BranchScore: a hydrant scores like the other zones of
\* its branch.
BranchScore_HydrantAsZone(rule, branch) ==
    CASE branch = 1 -> 95
      [] branch = 2 -> 92
      [] branch = 3 -> 93
      [] branch = 4 -> 94
      [] branch = 5 -> 55
      [] branch = 6 -> 90
      [] branch = 7 -> 60
      [] branch = 8 -> 30

\* The value the matched branch folds into risk_score with max().
BranchScore(rule, branch) ==
    CASE branch = 1 -> 95
      [] branch = 2 -> 92
      [] branch = 3 -> 93
      [] branch = 4 -> IF rule.type = "hydrant_proximity" THEN 97 ELSE 94
      [] branch = 5 -> 55
      [] branch = 6 -> 90
      [] branch = 7 -> 60
      [] branch = 8 -> 30

\* A faulty variant of LoopStep: the matched branch overwrites risk_score
\* instead of folding it in with max().
LoopStep_LastScore(acc, rule) ==
    IF MatchedBranch(rule) = 0 THEN acc
    ELSE [ blocked_reasons |-> IF MatchedBranch(rule) \in BlockedBranches
                               THEN Append(acc.blocked_reasons,
                                           BranchReason(rule, MatchedBranch(rule)))
                               ELSE acc.blocked_reasons,
           caution_reasons |-> IF MatchedBranch(rule) \in CautionBranches
                               THEN Append(acc.caution_reasons,
                                           BranchReason(rule, MatchedBranch(rule)))
                               ELSE acc.caution_reasons,
           risk_score |-> BranchScore(rule, MatchedBranch(rule)) ]

\* One iteration of the loop (lines 11-50) on the accumulators.
LoopStep(acc, rule) ==
    LET branch == MatchedBranch(rule) IN
    IF branch = 0 THEN acc
    ELSE [ blocked_reasons |-> IF branch \in BlockedBranches
                               THEN Append(acc.blocked_reasons, BranchReason(rule, branch))
                               ELSE acc.blocked_reasons,
           caution_reasons |-> IF branch \in CautionBranches
                               THEN Append(acc.caution_reasons, BranchReason(rule, branch))
                               ELSE acc.caution_reasons,
           risk_score |-> Max(acc.risk_score, BranchScore(rule, branch)) ]

RECURSIVE LoopFrom(_, _, _)
LoopFrom(rs, i, acc) ==
    IF i > Len(rs) THEN acc ELSE LoopFrom(rs, i + 1, LoopStep(acc, rs[i]))

\* A faulty variant of IntOr: the default replaces the accumulated score.
IntOr_AlwaysDefault(x, d) == d

\* `x or d` for an int x
IntOr(x, d) == IF x # 0 THEN x ELSE d

\* A faulty variant of Reduce: the caution reasons are looked at before the
\* blocked ones.
Reduce_CautionFirst(acc) ==
    IF acc.caution_reasons # << >>
    THEN [ status |-> "caution",
           risk_score |-> IntOr(acc.risk_score, 50),
           primary_reason |-> acc.caution_reasons[1],
           recommended_action |-> "Parking may be allowed now, but review restrictions." ]
    ELSE IF acc.blocked_reasons # << >>
    THEN [ status |-> "blocked",
           risk_score |-> IntOr(acc.risk_score, 90),
           primary_reason |-> acc.blocked_reasons[1],
           recommended_action |-> "Do not park here. Move to another spot." ]
    ELSE [ status |-> "safe",
           risk_score |-> 10,
           primary_reason |-> "No active restrictions detected in current rule set.",
           recommended_action |-> "Proceed to park, then verify on-street signage." ]

\* A faulty variant of Reduce: the primary reason is the last reason
\* collected, not the first.
Reduce_LastReason(acc) ==
    IF acc.blocked_reasons # << >>
    THEN [ status |-> "blocked",
           risk_score |-> IntOr(acc.risk_score, 90),
           primary_reason |-> acc.blocked_reasons[Len(acc.blocked_reasons)],
           recommended_action |-> "Do not park here. Move to another spot." ]
    ELSE IF acc.caution_reasons # << >>
    THEN [ status |-> "caution",
           risk_score |-> IntOr(acc.risk_score, 50),
           primary_reason |-> acc.caution_reasons[Len(acc.caution_reasons)],
           recommended_action |-> "Parking may be allowed now, but review restrictions." ]
    ELSE [ status |-> "safe",
           risk_score |-> 10,
           primary_reason |-> "No active restrictions detected in current rule set.",
           recommended_action |-> "Proceed to park, then verify on-street signage." ]

\* The final reduction (lines 52-73).
Reduce(acc) ==
    IF acc.blocked_reasons # << >>
    THEN [ status |-> "blocked",
           risk_score |-> IntOr(acc.risk_score, 90),
           primary_reason |-> acc.blocked_reasons[1],
           recommended_action |-> "Do not park here. Move to another spot." ]
    ELSE IF acc.caution_reasons # << >>
    THEN [ status |-> "caution",
           risk_score |-> IntOr(acc.risk_score, 50),
           primary_reason |-> acc.caution_reasons[1],
           recommended_action |-> "Parking may be allowed now, but review restrictions." ]
    ELSE [ status |-> "safe",
           risk_score |-> 10,
           primary_reason |-> "No active restrictions detected in current rule set.",
           recommended_action |-> "Proceed to park, then verify on-street signage." ]

derive_parking_decision(rs) ==
    Reduce(LoopFrom(rs, 1, [blocked_reasons |-> << >>, caution_reasons |-> << >>, risk_score |-> 0]))

(***************************************************************************)
(* main.py: _derive_parking_decision, the decision function the            *)
(* /parking-status endpoint calls (line 450)                               *)
(***************************************************************************)
\* The first branch of the endpoint's loop body (lines 55-89) the rule
\* matches, with the numbers of MatchedBranch; 0 when it matches none. The
\* loop has no branch for hydrant_uncertain, and its "starts in" branch
\* takes street_cleaning only.
EndpointBranch(rule) ==
    IF rule.type = "street_cleaning" /\ ActiveNow(rule) THEN 1
    ELSE IF rule.type \in {"loading_only", "truck_loading_only"} /\ ~rule.valid THEN 2
    ELSE IF rule.type \in {"taxi_only", "fhv_only"} /\ ~rule.valid THEN 3
    ELSE IF rule.type \in {"fire_zone", "emergency_access", "official_vehicle_only",
                           "hydrant_proximity"} /\ ~rule.valid THEN 4
    ELSE IF rule.type \in {"no_standing", "no parking"} /\ ~rule.valid THEN 6
    ELSE IF rule.type = "street_cleaning" /\ ~ActiveNow(rule) /\ TruthyStr(rule.time_left) THEN 7
    ELSE IF rule.type = "metered" /\ rule.valid THEN 8
    ELSE 0

\* The reason the matched branch appends.
EndpointReason(rule, branch) ==
    CASE branch = 1 -> StrOr(rule.reason, "Street cleaning active now")
      [] branch \in {2, 3, 4} -> StrOr(rule.reason, rule.description)
      [] branch = 6 -> rule.description
      [] branch = 7 -> StrOr(rule.reason, "Street cleaning starts in " \o rule.time_left[1])
      [] branch = 8 -> "Meter payment required"

\* One iteration of the loop (lines 55-89); the scores are those of
\* BranchScore.
EndpointStep(acc, rule) ==
    LET branch == EndpointBranch(rule) IN
    IF branch = 0 THEN acc
    ELSE [ blocked_reasons |-> IF branch \in BlockedBranches
                               THEN Append(acc.blocked_reasons, EndpointReason(rule, branch))
                               ELSE acc.blocked_reasons,
           caution_reasons |-> IF branch \in CautionBranches
                               THEN Append(acc.caution_reasons, EndpointReason(rule, branch))
                               ELSE acc.caution_reasons,
           risk_score |-> Max(acc.risk_score, BranchScore(rule, branch)) ]

RECURSIVE EndpointLoop(_, _, _)
EndpointLoop(rs, i, acc) ==
    IF i > Len(rs) THEN acc ELSE EndpointLoop(rs, i + 1, EndpointStep(acc, rs[i]))

\* The final reduction (lines 91-112) is the text of decision_engine.py
\* lines 52-73.
_derive_parking_decision(rs) ==
    Reduce(EndpointLoop(rs, 1, [blocked_reasons |-> << >>, caution_reasons |-> << >>,
                                risk_score |-> 0]))

(***************************************************************************)
(* violations.py: the fine catalog, estimate_violation_for_rule and        *)
(* summarize_violations                                                    *)
(***************************************************************************)
DefaultSource == "ParkGuard internal NYC MVP mapping"
DefaultUpdated == "2026-02-27"

FineBand(min_usd, max_usd, violation_code, fine_source, last_updated) ==
    [ min_usd |-> min_usd, max_usd |-> max_usd, violation_code |-> violation_code,
      fine_source |-> fine_source, last_updated |-> last_updated ]

\* The built-in band set (lines 29-40).
FallbackBands ==
    [ t \in { "hydrant_proximity", "street_cleaning", "truck_loading_only", "loading_only",
              "taxi_only", "fhv_only", "fire_zone", "official_vehicle_only", "no_standing",
              "no parking" } |->
        CASE t = "hydrant_proximity" -> FineBand(115, 115, "NYC-HYDRANT-15FT", DefaultSource, DefaultUpdated)
          [] t = "street_cleaning" -> FineBand(65, 65, "NYC-ASP", DefaultSource, DefaultUpdated)
          [] t = "truck_loading_only" -> FineBand(95, 115, "NYC-TRUCK-LOADING", DefaultSource, DefaultUpdated)
          [] t = "loading_only" -> FineBand(95, 115, "NYC-LOADING-ONLY", DefaultSource, DefaultUpdated)
          [] t = "taxi_only" -> FineBand(95, 115, "NYC-TAXI-ONLY", DefaultSource, DefaultUpdated)
          [] t = "fhv_only" -> FineBand(95, 115, "NYC-FHV-ONLY", DefaultSource, DefaultUpdated)
          [] t = "fire_zone" -> FineBand(115, 150, "NYC-FIRE-ZONE", DefaultSource, DefaultUpdated)
          [] t = "official_vehicle_only" -> FineBand(95, 150, "NYC-OFFICIAL-ONLY", DefaultSource, DefaultUpdated)
          [] t = "no_standing" -> FineBand(95, 115, "NYC-NO-STANDING", DefaultSource, DefaultUpdated)
          [] t = "no parking" -> FineBand(65, 115, "NYC-NO-PARKING", DefaultSource, DefaultUpdated) ]

\* The catalog file data/nyc_fines.json is one of
\*   [kind |-> "missing"]                  read_text raises FileNotFoundError
\*   [kind |-> "invalid_json"]             json.loads raises JSONDecodeError
\*   [kind |-> "object", source, last_updated, rules]
\*                                         a JSON object; source and
\*                                         last_updated are Optional[str];
\*                                         rules is None (key absent) or
\*                                         Some([is_dict, entries]), entries
\*                                         a function from rule types to
\*                                         entries (empty when the value is
\*                                         not a JSON object).
\* An entry is [is_dict, min_fine_usd, max_fine_usd, violation_code]: the
\* fines are Optional[[int_ok, v]] (None: the key is absent; int_ok FALSE:
\* int() raises ValueError or TypeError on the value), violation_code is
\* Optional[str].
EntryUsable(spec) ==
    /\ spec.is_dict
    /\ spec.min_fine_usd # None /\ spec.min_fine_usd[1].int_ok
    /\ spec.max_fine_usd # None /\ spec.max_fine_usd[1].int_ok
    /\ spec.violation_code # None

\* _load_fine_bands (lines 25-70) on a catalog file.
_load_fine_bands(file) ==
    IF file.kind \in {"missing", "invalid_json"} THEN FallbackBands
    ELSE LET source == IF file.source = None THEN DefaultSource ELSE file.source[1]
             last_updated == IF file.last_updated = None THEN DefaultUpdated ELSE file.last_updated[1]
         IN  IF file.rules = None \/ ~file.rules[1].is_dict THEN FallbackBands
             ELSE LET entries == file.rules[1].entries
                      usable == { t \in DOMAIN entries : EntryUsable(entries[t]) }
                      mapped == [ t \in usable |->
                                    FineBand(entries[t].min_fine_usd[1].v,
                                             entries[t].max_fine_usd[1].v,
                                             entries[t].violation_code[1],
                                             source, last_updated) ]
                  IN  IF usable # {} THEN mapped ELSE FallbackBands

\* A faulty variant of estimate_violation_for_rule: the meter guard is
\* missing.
estimate_violation_for_rule_MeterPriced(rule, bands) ==
    IF rule.valid THEN None
    ELSE IF rule.type \notin DOMAIN bands THEN None
    ELSE Some([ violation_code |-> bands[rule.type].violation_code,
                min_fine_usd |-> bands[rule.type].min_usd,
                max_fine_usd |-> bands[rule.type].max_usd,
                fine_source |-> bands[rule.type].fine_source,
                last_updated |-> bands[rule.type].last_updated ])

\* A faulty variant of estimate_violation_for_rule: the guard on rule.valid
\* is missing.
estimate_violation_for_rule_ValidPriced(rule, bands) ==
    IF rule.type = "metered" THEN None
    ELSE IF rule.type \notin DOMAIN bands THEN None
    ELSE LET band == bands[rule.type] IN
         Some([ violation_code |-> band.violation_code,
                min_fine_usd |-> band.min_usd,
                max_fine_usd |-> band.max_usd,
                fine_source |-> band.fine_source,
                last_updated |-> band.last_updated ])

\* estimate_violation_for_rule (lines 73-92), bands being _load_fine_bands().
estimate_violation_for_rule(rule, bands) ==
    IF rule.type = "metered" THEN None
    ELSE IF rule.valid THEN None
    ELSE IF rule.type \notin DOMAIN bands THEN None
    ELSE LET band == bands[rule.type] IN
         Some([ violation_code |-> band.violation_code,
                min_fine_usd |-> band.min_usd,
                max_fine_usd |-> band.max_usd,
                fine_source |-> band.fine_source,
                last_updated |-> band.last_updated ])

\* main.py lines 440-448: attach the estimate to each rule that gets one.
EnrichRule(rule, bands) ==
    LET estimate == estimate_violation_for_rule(rule, bands) IN
    IF estimate = None THEN rule ELSE [rule EXCEPT !.violation_estimate = estimate]

EnrichRules(rs, bands) == [ i \in 1..Len(rs) |-> EnrichRule(rs[i], bands) ]

RECURSIVE SumOver(_, _, _)
SumOver(es, i, field) ==
    IF i > Len(es) THEN 0 ELSE es[i][field] + SumOver(es, i + 1, field)

\* A faulty variant of summarize_violations: a violation counts as high risk
\* only above 115, not from 115 on.
summarize_violations_StrictThreshold(rs) ==
    LET estimates == [ i \in 1..Len(SelectSeq(rs, LAMBDA r : r.violation_estimate # None)) |->
                         SelectSeq(rs, LAMBDA r : r.violation_estimate # None)[i].violation_estimate[1] ]
    IN  IF estimates = << >>
        THEN [ estimated_total_min_usd |-> 0, estimated_total_max_usd |-> 0,
               highest_single_max_usd |-> 0, high_risk_violations |-> 0 ]
        ELSE [ estimated_total_min_usd |-> SumOver(estimates, 1, "min_fine_usd"),
               estimated_total_max_usd |-> SumOver(estimates, 1, "max_fine_usd"),
               highest_single_max_usd |->
                   CHOOSE m \in { estimates[i].max_fine_usd : i \in 1..Len(estimates) } :
                       \A j \in 1..Len(estimates) : estimates[j].max_fine_usd <= m,
               high_risk_violations |->
                   Cardinality({ i \in 1..Len(estimates) : estimates[i].max_fine_usd > 115 }) ]

\* summarize_violations (lines 95-115)
summarize_violations(rs) ==
    LET estimates == [ i \in 1..Len(SelectSeq(rs, LAMBDA r : r.violation_estimate # None)) |->
                         SelectSeq(rs, LAMBDA r : r.violation_estimate # None)[i].violation_estimate[1] ]
    IN  IF estimates = << >>
        THEN [ estimated_total_min_usd |-> 0, estimated_total_max_usd |-> 0,
               highest_single_max_usd |-> 0, high_risk_violations |-> 0 ]
        ELSE [ estimated_total_min_usd |-> SumOver(estimates, 1, "min_fine_usd"),
               estimated_total_max_usd |-> SumOver(estimates, 1, "max_fine_usd"),
               highest_single_max_usd |->
                   CHOOSE m \in { estimates[i].max_fine_usd : i \in 1..Len(estimates) } :
                       \A j \in 1..Len(estimates) : estimates[j].max_fine_usd <= m,
               high_risk_violations |->
                   Cardinality({ i \in 1..Len(estimates) : estimates[i].max_fine_usd >= 115 }) ]

(***************************************************************************)
(* sign_parser.py: parse_regulation_record and its helpers. A key of the   *)
(* raw record is None when the record does not have it and Some(s) when it *)
(* holds the string s.                                                     *)
(***************************************************************************)
\* reg.get(key, default)
GetOr(field, default) == IF field = None THEN default ELSE field[1]

\* `x or y` for two Optional[str]
OptOr(x, y) == IF TruthyStr(x) THEN x ELSE y

\* any(token in text for token in tokens)
AnyIn(text, tokens) == \E token \in tokens : Contains(text, token)

\* f"{n:02d}" for n >= 0
Pad2(n) == IF n < 10 THEN "0" \o ToString(n) ELSE ToString(n)

\* _format_duration_seconds(countdown.total_seconds()) (lines 18-22): int()
\* drops the fraction of a second, max(..., 0) lifts a negative total to 0.
_format_duration_seconds(countdown) ==
    ToString(Max(countdown.days * SecondsPerDay + countdown.seconds, 0) \div 3600)
        \o "h "
        \o ToString((Max(countdown.days * SecondsPerDay + countdown.seconds, 0) % 3600) \div 60)
        \o "m"

IsAlpha(c) == c # LowerChr(c) \/ c # UpperChr(c)

\* str.title(): a letter is upper-cased after a non-letter, lower-cased
\* after a letter.
RECURSIVE TitleFrom(_, _)
TitleFrom(s, after_letter) ==
    IF s = "" THEN ""
    ELSE (IF after_letter THEN LowerChr(Chr(s, 1)) ELSE UpperChr(Chr(s, 1)))
         \o TitleFrom(SubSeq(s, 2, Len(s)), IsAlpha(Chr(s, 1)))

title(s) == TitleFrom(s, FALSE)

\* The loop of _extract_day_spec_from_text (lines 27-35) from the i-th token.
DayTokens == << "mon-fri", "monday-friday", "weekdays", "daily", "weekends", "sat-sun" >>

RECURSIVE DayTokenFrom(_, _)
DayTokenFrom(text_lower, i) ==
    IF i > Len(DayTokens) THEN None
    ELSE IF Contains(text_lower, DayTokens[i])
    THEN IF DayTokens[i] \in {"monday-friday", "weekdays"} THEN Some("Mon-Fri")
         ELSE IF DayTokens[i] = "sat-sun" THEN Some("Sat-Sun")
         ELSE Some(title(DayTokens[i]))
    ELSE DayTokenFrom(text_lower, i + 1)

_extract_day_spec_from_text(text) == DayTokenFrom(lower(text), 1)

\* The pattern of _extract_time_window_from_text (lines 39-42),
\*   (\d{1,2})(?::(\d{2}))?\s*(AM|PM)\s*[-~]\s*(\d{1,2})(?::(\d{2}))?\s*(AM|PM)
\* with re.IGNORECASE, where ~ stands for the en dash, a character the
\* strings of this module cannot hold. None of the pattern's choices can
\* succeed in two ways, so it is matched without backtracking.
CharAt(s, i) == IF i \in 1..Len(s) THEN Chr(s, i) ELSE ""

DigitsAt(s, i) ==
    IF IsDigit(CharAt(s, i)) /\ IsDigit(CharAt(s, i + 1)) THEN 2
    ELSE IF IsDigit(CharAt(s, i)) THEN 1
    ELSE 0

RECURSIVE SkipSpaces(_, _)
SkipSpaces(s, i) == IF IsSpace(CharAt(s, i)) THEN SkipSpaces(s, i + 1) ELSE i

AmPmAt(s, i) == i + 1 <= Len(s) /\ upper(SubSeq(s, i, i + 1)) \in {"AM", "PM"}

HasMinutesAt(s, j) ==
    /\ CharAt(s, j) = ":"
    /\ IsDigit(CharAt(s, j + 1)) /\ IsDigit(CharAt(s, j + 2))
    /\ AmPmAt(s, SkipSpaces(s, j + 3))

\* (\d{1,2})(?::(\d{2}))?\s*(AM|PM) at position i: the groups and the
\* position after the match, or None.
ClockAt(s, i) ==
    IF DigitsAt(s, i) = 0 THEN None
    ELSE IF HasMinutesAt(s, i + DigitsAt(s, i))
    THEN Some([ hour |-> SubSeq(s, i, i + DigitsAt(s, i) - 1),
                minute |-> Some(SubSeq(s, i + DigitsAt(s, i) + 1, i + DigitsAt(s, i) + 2)),
                ampm |-> SubSeq(s, SkipSpaces(s, i + DigitsAt(s, i) + 3),
                                   SkipSpaces(s, i + DigitsAt(s, i) + 3) + 1),
                next |-> SkipSpaces(s, i + DigitsAt(s, i) + 3) + 2 ])
    ELSE IF AmPmAt(s, SkipSpaces(s, i + DigitsAt(s, i)))
    THEN Some([ hour |-> SubSeq(s, i, i + DigitsAt(s, i) - 1),
                minute |-> None,
                ampm |-> SubSeq(s, SkipSpaces(s, i + DigitsAt(s, i)),
                                   SkipSpaces(s, i + DigitsAt(s, i)) + 1),
                next |-> SkipSpaces(s, i + DigitsAt(s, i)) + 2 ])
    ELSE None

\* The second clock of the pattern after the first one `first`.
SecondClockAfter(s, first) ==
    IF CharAt(s, SkipSpaces(s, first.next)) = "-"
    THEN ClockAt(s, SkipSpaces(s, SkipSpaces(s, first.next) + 1))
    ELSE None

\* pattern.search(text) from position i on: the two clocks of the leftmost
\* match, or None.
RECURSIVE SearchFrom(_, _)
SearchFrom(s, i) ==
    IF i > Len(s) THEN None
    ELSE IF ClockAt(s, i) # None /\ SecondClockAfter(s, ClockAt(s, i)[1]) # None
    THEN Some(<< ClockAt(s, i)[1], SecondClockAfter(s, ClockAt(s, i)[1])[1] >>)
    ELSE SearchFrom(s, i + 1)

\* to_24h (lines 47-52)
to_24h(hour_str, minute_str, ampm) ==
    Pad2((NumberOf(hour_str) % 12) + (IF lower(ampm) = "pm" THEN 12 ELSE 0))
        \o ":"
        \o Pad2(IF TruthyStr(minute_str) THEN NumberOf(minute_str[1]) ELSE 0)

ClocksTo24h(match) ==
    IF match = None THEN << None, None >>
    ELSE << Some(to_24h(match[1][1].hour, match[1][1].minute, match[1][1].ampm)),
            Some(to_24h(match[1][2].hour, match[1][2].minute, match[1][2].ampm)) >>

_extract_time_window_from_text(text) == ClocksTo24h(SearchFrom(text, 1))

\* A ParkingRule as parse_regulation_record builds it before the catch-all.
SignRule(type, description, valid, severity, reason, source) ==
    [ type |-> type, description |-> description, fine |-> None,
      next_cleaning |-> None, window |-> None, time_left |-> None,
      eligible_vehicle_types |-> None,
      active_now |-> None, severity |-> Some(severity),
      valid |-> valid, reason |-> Some(reason), source |-> source,
      violation_estimate |-> None ]

\* The time-bound rules (lines 83-99 and 120-135). `label` is the text the
\* reason starts with.
TimedRule(type, label, description, start_time, end_time, eval_result, time_left, source) ==
    [ SignRule(type, description, ~eval_result.active_now,
               IF eval_result.active_now THEN "high" ELSE "medium",
               IF eval_result.active_now
               THEN label \o " active now (ends in " \o time_left \o ")"
               ELSE label \o " starts in " \o time_left,
               source)
      EXCEPT !.window = Some(start_time \o " - " \o end_time),
             !.time_left = Some(time_left),
             !.active_now = Some(eval_result.active_now) ]

\* A faulty variant of CleaningRule: the rule is valid whether or not the
\* window is active.
CleaningRule_AlwaysValid(description, start_time, end_time, eval_result) ==
    [ TimedRule("street_cleaning", "Street cleaning", description, start_time, end_time,
                eval_result, _format_duration_seconds(eval_result.countdown),
                "NYC DOT Sweeping Schedule")
      EXCEPT !.next_cleaning = Some(eval_result.next_start), !.valid = TRUE ]

\* Lines 74-99.
CleaningRule(description, start_time, end_time, eval_result) ==
    [ TimedRule("street_cleaning", "Street cleaning", description, start_time, end_time,
                eval_result, _format_duration_seconds(eval_result.countdown),
                "NYC DOT Sweeping Schedule")
      EXCEPT !.next_cleaning = Some(eval_result.next_start) ]

\* Lines 103-111: the start, the end and the days of a no-standing record,
\* from its fields or else from its description.
NoStandingStart(r, description) ==
    IF TruthyStr(r.time_from) /\ TruthyStr(r.time_to) THEN r.time_from
    ELSE OptOr(r.time_from, _extract_time_window_from_text(description)[1])

NoStandingEnd(r, description) ==
    IF TruthyStr(r.time_from) /\ TruthyStr(r.time_to) THEN r.time_to
    ELSE OptOr(r.time_to, _extract_time_window_from_text(description)[2])

NoStandingDays(r, description) ==
    IF TruthyStr(r.days) THEN r.days[1]
    ELSE IF TruthyStr(_extract_day_spec_from_text(description))
         THEN _extract_day_spec_from_text(description)[1]
         ELSE "Mon-Fri"

\* Lines 113-135.
NoStandingRule(description, start_time, end_time, eval_result) ==
    TimedRule("no_standing", "No standing", description, start_time, end_time,
              eval_result, _format_duration_seconds(eval_result.countdown), "NYC DOT Sign")

\* A faulty variant of LoadingRule: the commercial plate is not asked for.
LoadingRule_AnyTruck(description, description_lower, v) ==
    SignRule(IF Contains(description_lower, "truck") THEN "truck_loading_only" ELSE "loading_only",
             description, v.vehicle_type = "truck",
             IF v.vehicle_type # "truck" THEN "high" ELSE "medium",
             IF v.vehicle_type # "truck"
             THEN "Loading/truck-only zone. Requires commercial truck profile."
             ELSE "Commercial truck profile matches loading/truck-only zone.",
             "NYC DOT Sign")

\* Lines 142-158.
LoadingRule(description, description_lower, v) ==
    LET allows_truck == Contains(description_lower, "truck") \/ Contains(description_lower, "commercial")
        allows_loading == Contains(description_lower, "loading")
        can_use_loading_zone ==
            v.vehicle_type = "truck" /\ v.commercial_plate /\ (allows_truck \/ allows_loading)
    IN  SignRule(IF Contains(description_lower, "truck") THEN "truck_loading_only" ELSE "loading_only",
                 description, can_use_loading_zone,
                 IF ~can_use_loading_zone THEN "high" ELSE "medium",
                 IF ~can_use_loading_zone
                 THEN "Loading/truck-only zone. Requires commercial truck profile."
                 ELSE "Commercial truck profile matches loading/truck-only zone.",
                 "NYC DOT Sign")

is_taxi_zone(description_lower) ==
    AnyIn(description_lower, {"taxi stand", "taxi only", "taxicab", "taxi zone"})

is_fhv_zone(description_lower) ==
    /\ AnyIn(description_lower, {"for-hire", "for hire", "fhv", "tlc"})
    /\ AnyIn(description_lower, {"stand", "pickup", "pick-up", "only", "zone"})

\* A faulty variant of TaxiRule: a for-hire vehicle may use a taxi stand.
TaxiRule_FhvOnTaxiStand(description, description_lower, v) ==
    LET taxi == is_taxi_zone(description_lower)
        allowed == v.vehicle_type \in {"fhv", "taxi"}
        zone_label == IF taxi THEN "Taxi-only zone" ELSE "FHV/TLC zone"
    IN  SignRule(IF taxi THEN "taxi_only" ELSE "fhv_only", description, allowed,
                 IF allowed THEN "low" ELSE "high",
                 IF allowed
                 THEN zone_label \o " matches current vehicle profile."
                 ELSE zone_label \o ". Current vehicle type '" \o v.vehicle_type
                          \o "' is not eligible.",
                 "NYC DOT Sign")

\* Lines 168-188.
TaxiRule(description, description_lower, v) ==
    LET taxi == is_taxi_zone(description_lower)
        allowed == IF taxi THEN v.vehicle_type = "taxi" ELSE v.vehicle_type \in {"fhv", "taxi"}
        zone_label == IF taxi THEN "Taxi-only zone" ELSE "FHV/TLC zone"
    IN  SignRule(IF taxi THEN "taxi_only" ELSE "fhv_only", description, allowed,
                 IF allowed THEN "low" ELSE "high",
                 IF allowed
                 THEN zone_label \o " matches current vehicle profile."
                 ELSE zone_label \o ". Current vehicle type '" \o v.vehicle_type
                          \o "' is not eligible.",
                 "NYC DOT Sign")

\* Lines 194-208.
FireRule(description, v) ==
    [ SignRule("fire_zone", description, v.agency_affiliation = "fire", "high",
               IF v.agency_affiliation # "fire"
               THEN "Fire/emergency zone reserved for authorized fire access."
               ELSE "Authorized fire-agency vehicle profile.",
               "NYC DOT Sign")
      EXCEPT !.eligible_vehicle_types = Some(<< "fire" >>) ]

\* A faulty variant of EligibleAgencies: the school group is missing.
EligibleAgencies_NoSchool(description_lower) ==
    IF AnyIn(description_lower, {"police", "nypd"}) THEN << "police" >>
    ELSE IF AnyIn(description_lower, {"fire", "fdny"}) THEN << "fire" >>
    ELSE << "city", "police", "fire", "school" >>

\* Lines 223-230.
EligibleAgencies(description_lower) ==
    IF AnyIn(description_lower, {"police", "nypd"}) THEN << "police" >>
    ELSE IF AnyIn(description_lower, {"fire", "fdny"}) THEN << "fire" >>
    ELSE IF Contains(description_lower, "school") THEN << "school" >>
    ELSE << "city", "police", "fire", "school" >>

\* ", ".join(items)
RECURSIVE JoinFrom(_, _)
JoinFrom(items, i) ==
    IF i > Len(items) THEN ""
    ELSE IF i = Len(items) THEN items[i]
    ELSE items[i] \o ", " \o JoinFrom(items, i + 1)

\* Lines 232-245.
OfficialRule(description, eligible, v) ==
    LET allowed == \E i \in 1..Len(eligible) : eligible[i] = v.agency_affiliation
    IN  [ SignRule("official_vehicle_only", description, allowed,
                   IF ~allowed THEN "high" ELSE "low",
                   IF ~allowed
                   THEN "Reserved for " \o JoinFrom(eligible, 1) \o " vehicles."
                   ELSE "Authorized agency profile matches reserved spot.",
                   "NYC DOT Sign")
          EXCEPT !.eligible_vehicle_types = Some(eligible) ]

\* The triggers of the categories, in the order of the source.
is_cleaning(rule_type, description_lower) ==
    Contains(rule_type, "clean") \/ Contains(description_lower, "alternate side")

is_no_standing(rule_type, description_lower) ==
    rule_type = "no_standing" \/ Contains(description_lower, "no standing")

is_loading_zone(description_lower) ==
    AnyIn(description_lower, {"loading", "truck loading", "commercial vehicles only", "trucks only"})

is_fire_zone(description_lower) ==
    AnyIn(description_lower, {"fire zone", "fire lane", "fire department", "fdny", "emergency access"})

is_official_zone(description_lower) ==
    AnyIn(description_lower,
          {"police only", "nypd", "department vehicles only", "official vehicles only",
           "authorized vehicles only", "government vehicles only", "agency vehicles only"})

\* A faulty variant of ClassifyRecord: the taxi and for-hire zones are
\* tested before the loading zones.
ClassifyRecord_TaxiBeforeLoading(rule_type, description, description_lower, r, n, v) ==
    IF is_cleaning(rule_type, description_lower)
    THEN CleaningRule(description, GetOr(r.time_from, "06:00"), GetOr(r.time_to, "09:00"),
                      evaluate_recurring_window(n, Some(GetOr(r.days, "Mon-Fri")),
                                                Some(GetOr(r.time_from, "06:00")),
                                                Some(GetOr(r.time_to, "09:00"))))
    ELSE IF /\ is_no_standing(rule_type, description_lower)
            /\ TruthyStr(NoStandingStart(r, description))
            /\ TruthyStr(NoStandingEnd(r, description))
    THEN NoStandingRule(description,
                        NoStandingStart(r, description)[1], NoStandingEnd(r, description)[1],
                        evaluate_recurring_window(n, Some(NoStandingDays(r, description)),
                                                  NoStandingStart(r, description),
                                                  NoStandingEnd(r, description)))
    ELSE IF is_taxi_zone(description_lower) \/ is_fhv_zone(description_lower)
    THEN TaxiRule(description, description_lower, v)
    ELSE IF is_loading_zone(description_lower) THEN LoadingRule(description, description_lower, v)
    ELSE IF is_fire_zone(description_lower) THEN FireRule(description, v)
    ELSE IF is_official_zone(description_lower)
    THEN OfficialRule(description, EligibleAgencies(description_lower), v)
    ELSE FallbackRule(rule_type, description)

\* Lines 72-255 for a record whose order_type and description are read.
ClassifyRecord(rule_type, description, description_lower, r, n, v) ==
    IF is_cleaning(rule_type, description_lower)
    THEN CleaningRule(description, GetOr(r.time_from, "06:00"), GetOr(r.time_to, "09:00"),
                      evaluate_recurring_window(n, Some(GetOr(r.days, "Mon-Fri")),
                                                Some(GetOr(r.time_from, "06:00")),
                                                Some(GetOr(r.time_to, "09:00"))))
    ELSE IF /\ is_no_standing(rule_type, description_lower)
            /\ TruthyStr(NoStandingStart(r, description))
            /\ TruthyStr(NoStandingEnd(r, description))
    THEN NoStandingRule(description,
                        NoStandingStart(r, description)[1], NoStandingEnd(r, description)[1],
                        evaluate_recurring_window(n, Some(NoStandingDays(r, description)),
                                                  NoStandingStart(r, description),
                                                  NoStandingEnd(r, description)))
    ELSE IF is_loading_zone(description_lower) THEN LoadingRule(description, description_lower, v)
    ELSE IF is_taxi_zone(description_lower) \/ is_fhv_zone(description_lower)
    THEN TaxiRule(description, description_lower, v)
    ELSE IF is_fire_zone(description_lower) THEN FireRule(description, v)
    ELSE IF is_official_zone(description_lower)
    THEN OfficialRule(description, EligibleAgencies(description_lower), v)
    ELSE FallbackRule(rule_type, description)

\* reg.get("sign_desc") or reg.get("description") or "No description" (line 68)
DescriptionOf(r) ==
    IF TruthyStr(r.sign_desc) THEN r.sign_desc[1]
    ELSE IF TruthyStr(r.description) THEN r.description[1]
    ELSE "No description"

parse_regulation_record(r, n, v) ==
    ClassifyRecord(lower(GetOr(r.order_type, "unknown")), DescriptionOf(r),
                   lower(DescriptionOf(r)), r, n, v)

(***************************************************************************)
(* Inputs                                                                  *)
(***************************************************************************)
\* The longest rule list of an evaluation.
MaxRules == 2

\* Reference instants fall on the days 0..MaxDay (day 0 is a Monday).
MaxDay == 6

\* The worker threads that serve requests concurrently.
MaxThreads == 2
Threads == 1..MaxThreads

\* Keys of the TTL cache.
CacheKeys == {"a", "b"}

ZoneTypes ==
    { "loading_only", "truck_loading_only", "taxi_only", "fhv_only", "fire_zone",
      "emergency_access", "official_vehicle_only", "hydrant_proximity" }

TimedTypes == { "street_cleaning", "no_standing" }

\* ParkingRule values constructed directly, as the tests construct them.
DirectRules ==
    UNION { { ParkingRule(t, "sign: " \o t, FALSE, None, None, None),
              ParkingRule(t, "sign: " \o t, FALSE, None, None, Some("reason: " \o t)) } :
            t \in ZoneTypes }
    \cup { ParkingRule(t, "sign: " \o t, TRUE, None, None, Some("ok: " \o t)) : t \in ZoneTypes }
    \cup { ParkingRule("no parking", "", FALSE, None, None, Some("reason: no parking")),
           ParkingRule("no parking", "sign: no parking", TRUE, None, None, None),
           ParkingRule("parking", "sign: parking", FALSE, None, None, None),
           ParkingRule("hydrant_uncertain", "hydrant?", TRUE, None, None, None),
           ParkingRule("hydrant_uncertain", "hydrant?", TRUE, None, None, Some("")),
           ParkingRule("hydrant_uncertain", "hydrant?", FALSE, None, None, Some("reason: gps")) }
    \cup UNION { { ParkingRule(t, "sign: " \o t, FALSE, Some(TRUE), Some("0h 45m"), Some("active: " \o t)),
                   ParkingRule(t, "sign: " \o t, TRUE, Some(FALSE), Some("1h 5m"), Some("soon: " \o t)),
                   ParkingRule(t, "sign: " \o t, TRUE, Some(FALSE), Some("1h 5m"), None),
                   ParkingRule(t, "sign: " \o t, TRUE, Some(FALSE), None, None),
                   ParkingRule(t, "sign: " \o t, FALSE, None, None, None),
                   ParkingRule(t, "sign: " \o t, TRUE, None, Some(""), None),
                   ParkingRule(t, "sign: " \o t, FALSE, Some(FALSE), Some("1h 5m"), Some("odd: " \o t)) } :
                 t \in TimedTypes }

\* "status" values of meter records.
MeterStatuses == { None, Some("Active"), Some("active"), Some("Out of order") }

\* order_type values (lower-cased) of regulation records that trigger no
\* category of parse_regulation_record, with the description such a record
\* gets when it has neither sign_desc nor description.
FallbackOrderTypes == { "unknown", "parking", "no parking", "metered", "hydrant_uncertain" }
NoDescription == "No description"

IntOk(v) == Some([int_ok |-> TRUE, v |-> v])
IntBad == Some([int_ok |-> FALSE, v |-> 0])
Entry(min, max, code) == [is_dict |-> TRUE, min_fine_usd |-> min, max_fine_usd |-> max, violation_code |-> code]

\* States of data/nyc_fines.json. Fines are amounts in dollars, never negative.
CatalogFiles ==
    { [kind |-> "missing"],
      [kind |-> "invalid_json"],
      [kind |-> "object", source |-> None, last_updated |-> None, rules |-> None],
      [kind |-> "object", source |-> None, last_updated |-> None,
       rules |-> Some([is_dict |-> FALSE, entries |-> << >>])],
      \* every entry unusable
      [kind |-> "object", source |-> Some("file"), last_updated |-> None,
       rules |-> Some([is_dict |-> TRUE, entries |->
           [ t \in {"no_standing", "taxi_only"} |->
               IF t = "no_standing" THEN Entry(IntOk(95), None, Some("X-NS"))
               ELSE Entry(IntBad, IntOk(115), Some("X-TAXI")) ] ])],
      \* some entries usable, among them one for "metered" and one for a
      \* passthrough type
      [kind |-> "object", source |-> Some("file"), last_updated |-> Some("2026-03-01"),
       rules |-> Some([is_dict |-> TRUE, entries |->
           [ t \in {"metered", "parking", "hydrant_proximity", "street_cleaning",
                    "no_standing", "taxi_only", "fire_zone"} |->
               CASE t = "metered" -> Entry(IntOk(25), IntOk(35), Some("X-METER"))
                 [] t = "parking" -> Entry(IntOk(35), IntOk(60), Some("X-PARKING"))
                 [] t = "hydrant_proximity" -> Entry(IntOk(115), IntOk(200), Some("X-HYDRANT"))
                 [] t = "street_cleaning" -> Entry(IntOk(45), IntOk(114), Some("X-ASP"))
                 [] t = "no_standing" -> Entry(IntOk(95), IntOk(115), None)
                 [] t = "taxi_only" -> [Entry(IntOk(95), IntOk(115), Some("X-TAXI")) EXCEPT !.is_dict = FALSE]
                 [] t = "fire_zone" -> Entry(IntOk(115), IntBad, Some("X-FIRE")) ] ])] }

(***************************************************************************)
(* Spec: one evaluation. Rules are collected, each is enriched with its    *)
(* violation estimate, the decision is derived and the violations are      *)
(* summarised.                                                             *)
(***************************************************************************)
IdleNow == [aware |-> FALSE, dt |-> [day |-> 0, sec |-> 0, us |-> 0], utcoffset |-> 0]

WindowIdle ==
    /\ now = IdleNow /\ win_days = None /\ win_start = None /\ win_end = None
    /\ evaluation = None

DaysIdle == days_arg = None /\ days_result = None

EvalIdle ==
    /\ fine_bands = None /\ rules = << >> /\ phase = "collect"
    /\ decision = None /\ violation_summary = None

\* No record is being classified.
IdleRecord ==
    [ order_type |-> None, sign_desc |-> None, description |-> None,
      time_from |-> None, time_to |-> None, days |-> None ]
IdleVehicle == [vehicle_type |-> "passenger", commercial_plate |-> FALSE, agency_affiliation |-> "none"]

ClassifierIdle == reg = IdleRecord /\ vehicle = IdleVehicle /\ classified = None

\* No thread is in the lru_cache wrapper of _load_fine_bands.
LoaderIdle ==
    /\ catalog_file = [kind |-> "missing"]
    /\ thread_pc = [t \in Threads |-> "idle"]
    /\ thread_loaded = [t \in Threads |-> None]
    /\ thread_result = [t \in Threads |-> None]
    /\ loads = 0

\* http_json_cache = TTLCache() (cache_store.py lines 17-22, 72), unused.
CacheIdle ==
    /\ store = [k \in CacheKeys |-> None]
    /\ clock = 0
    /\ last_set = [k \in CacheKeys |-> None]
    /\ got = None

\* No thread is in a call of the cache and nothing has been counted.
IdleCall == [op |-> "none"]

CountersIdle ==
    /\ cache_pc = [t \in Threads |-> IdleCall]
    /\ hits = 0 /\ misses = 0 /\ expirations = 0
    /\ gets_done = 0
    /\ lock = 0

\* build_hydrant_rules has not been called.
HydrantIdle == hydrant_args = None /\ hydrant_rules = None

\* The endpoint has not decided.
EndpointIdle == endpoint_decision = None

OthersIdle == CountersIdle /\ HydrantIdle /\ EndpointIdle

Init ==
    /\ DaysIdle /\ WindowIdle /\ EvalIdle /\ ClassifierIdle /\ LoaderIdle /\ CacheIdle
    /\ OthersIdle

\* A ParkingRule constructed directly.
AppendRule ==
    /\ phase = "collect"
    /\ Len(rules) < MaxRules
    /\ \E r \in DirectRules : rules' = Append(rules, r)
    /\ UNCHANGED << days_arg, days_result, now, win_days, win_start, win_end, evaluation,
                    fine_bands, phase, decision, violation_summary >>
    /\ UNCHANGED << classifierVars, loaderVars, cacheVars, counterVars, hydrantVars, endpoint_decision >>

\* A rule parsed from a meter record.
AppendMeterRule ==
    /\ phase = "collect"
    /\ Len(rules) < MaxRules
    /\ \E status \in MeterStatuses : rules' = Append(rules, parse_meter_record(status, None))
    /\ UNCHANGED << days_arg, days_result, now, win_days, win_start, win_end, evaluation,
                    fine_bands, phase, decision, violation_summary >>
    /\ UNCHANGED << classifierVars, loaderVars, cacheVars, counterVars, hydrantVars, endpoint_decision >>

\* A rule parsed from a regulation record that triggers no category.
AppendFallbackRule ==
    /\ phase = "collect"
    /\ Len(rules) < MaxRules
    /\ \E order_type \in FallbackOrderTypes :
         rules' = Append(rules, FallbackRule(order_type, NoDescription))
    /\ UNCHANGED << days_arg, days_result, now, win_days, win_start, win_end, evaluation,
                    fine_bands, phase, decision, violation_summary >>
    /\ UNCHANGED << classifierVars, loaderVars, cacheVars, counterVars, hydrantVars, endpoint_decision >>

\* main.py lines 440-448. The first call of estimate_violation_for_rule
\* loads the catalog from the file as it is then.
Enrich ==
    /\ phase = "collect"
    /\ \E file \in CatalogFiles :
         /\ fine_bands' = Some(_load_fine_bands(file))
         /\ rules' = EnrichRules(rules, _load_fine_bands(file))
    /\ phase' = "enriched"
    /\ UNCHANGED << days_arg, days_result, now, win_days, win_start, win_end, evaluation,
                    decision, violation_summary >>
    /\ UNCHANGED << classifierVars, loaderVars, cacheVars, counterVars, hydrantVars, endpoint_decision >>

\* The decision of decision_engine.derive_parking_decision and the decision
\* of the endpoint (main.py line 450) on the enriched rule list.
Decide ==
    /\ phase = "enriched"
    /\ decision' = Some(derive_parking_decision(rules))
    /\ endpoint_decision' = Some(_derive_parking_decision(rules))
    /\ phase' = "decided"
    /\ UNCHANGED << days_arg, days_result, now, win_days, win_start, win_end, evaluation,
                    fine_bands, rules, violation_summary >>
    /\ UNCHANGED << classifierVars, loaderVars, cacheVars, counterVars, hydrantVars >>

Summarize ==
    /\ phase = "decided"
    /\ violation_summary' = Some(summarize_violations(rules))
    /\ phase' = "summarized"
    /\ UNCHANGED << days_arg, days_result, now, win_days, win_start, win_end, evaluation,
                    fine_bands, rules, decision >>
    /\ UNCHANGED << classifierVars, loaderVars, cacheVars, counterVars, hydrantVars, endpoint_decision >>

Next == AppendRule \/ AppendMeterRule \/ AppendFallbackRule \/ Enrich \/ Decide \/ Summarize

Spec == Init /\ [][Next]_vars

(***************************************************************************)
(* SpecDays: one call of parse_days_spec                                   *)
(***************************************************************************)
DayWords == { "Mon", "tues", "WED", "thursday", "Fri", "sat", "Sun", "xyz", "" }
DaySeparators == { ",", ", ", " & ", "/", " and ", ";", "-", " - ", " " }
\* The words and the separators of the lists that hold a range and a day.
ListDayWords == { "Mon", "WED", "Fri", "Sun" }
ListSeparators == { ",", "&", "/", " and ", ";" }

DaySpecInputs ==
    { None }
    \cup { Some(w) : w \in DayWords }
    \cup { Some(a \o sep \o b) : a \in DayWords, b \in DayWords, sep \in DaySeparators }
    \cup { Some(a \o "-" \o b \o sep \o c) :
              a \in ListDayWords, b \in ListDayWords, c \in ListDayWords, sep \in ListSeparators }
    \cup { Some(w) : w \in { "daily", "Everyday", "all", "All Days", "weekdays", "Mon-Fri",
                             " weekends ", "SAT-SUN", "garbage", "   ", "-", ",", "mon-fri-sat",
                             "Fri-Mon, Wed", "sat-mon;wed-thu", "mon,,xyz", "sun-sun",
                             "daily, mon", "Mon-Fri-", "tue and thu and sat" } }

InitDays ==
    /\ days_arg \in DaySpecInputs
    /\ days_result = None
    /\ WindowIdle /\ EvalIdle /\ ClassifierIdle /\ LoaderIdle /\ CacheIdle
    /\ OthersIdle

ParseDays ==
    /\ days_result = None
    /\ days_result' = Some(parse_days_spec(days_arg))
    /\ UNCHANGED << days_arg, now, win_days, win_start, win_end, evaluation,
                    fine_bands, rules, phase, decision, violation_summary >>
    /\ UNCHANGED << classifierVars, loaderVars, cacheVars, counterVars, hydrantVars, endpoint_decision >>

NextDays == ParseDays

SpecDays == InitDays /\ [][NextDays]_vars

(***************************************************************************)
(* SpecWindow: one call of evaluate_recurring_window                       *)
(***************************************************************************)
Clock(h, m, s, us) == [sec |-> h * 3600 + m * 60 + s, us |-> us]

\* Times of day of the reference instants.
ClockSamples ==
    { Clock(0, 0, 0, 0), Clock(5, 59, 59, 999999), Clock(6, 0, 0, 0), Clock(6, 0, 0, 1),
      Clock(7, 15, 0, 0), Clock(9, 0, 0, 0), Clock(12, 0, 0, 0), Clock(22, 0, 0, 0),
      Clock(23, 30, 0, 500000) }

\* Naive instants (taken as local time), and aware UTC instants with the
\* zone's offset at that instant (EST, EDT).
NowInputs ==
    { [aware |-> FALSE, dt |-> [day |-> d, sec |-> c.sec, us |-> c.us], utcoffset |-> 0] :
        d \in 0..MaxDay, c \in ClockSamples }
    \cup { [aware |-> TRUE, dt |-> [day |-> d, sec |-> c.sec, us |-> c.us], utcoffset |-> off] :
             d \in 0..MaxDay, c \in { Clock(3, 0, 0, 0), Clock(11, 0, 0, 0) },
             off \in { 0 - 5 * 3600, 0 - 4 * 3600 } }

WindowDayInputs == { None, Some("Mon-Fri"), Some("Fri-Mon"), Some("weekends"), Some("Sun") }
WindowStartInputs == { None, Some("22:00"), Some("9 PM"), Some("06:00:30"), Some("00:00") }
WindowEndInputs == { None, Some("06:00"), Some("10:30 pm"), Some("00:00"), Some("soon") }

InitWindow ==
    /\ now \in NowInputs
    /\ win_days \in WindowDayInputs
    /\ win_start \in WindowStartInputs
    /\ win_end \in WindowEndInputs
    /\ evaluation = None
    /\ DaysIdle /\ EvalIdle /\ ClassifierIdle /\ LoaderIdle /\ CacheIdle
    /\ OthersIdle

EvaluateWindow ==
    /\ evaluation = None
    /\ evaluation' = Some(evaluate_recurring_window(now, win_days, win_start, win_end))
    /\ UNCHANGED << days_arg, days_result, now, win_days, win_start, win_end,
                    fine_bands, rules, phase, decision, violation_summary >>
    /\ UNCHANGED << classifierVars, loaderVars, cacheVars, counterVars, hydrantVars, endpoint_decision >>

NextWindow == EvaluateWindow

SpecWindow == InitWindow /\ [][NextWindow]_vars

(***************************************************************************)
(* Properties of the decision engine                                       *)
(***************************************************************************)
\* The score floor of the first branch a rule matches, as the design lists
\* the branches; 0 for a rule that matches none.
ClaimFloor(r) ==
    IF r.type = "street_cleaning" /\ r.active_now = Some(TRUE) THEN 95
    ELSE IF r.type \in {"loading_only", "truck_loading_only"} /\ ~r.valid THEN 92
    ELSE IF r.type \in {"taxi_only", "fhv_only"} /\ ~r.valid THEN 93
    ELSE IF r.type = "hydrant_proximity" /\ ~r.valid THEN 97
    ELSE IF r.type \in {"fire_zone", "emergency_access", "official_vehicle_only"} /\ ~r.valid THEN 94
    ELSE IF r.type = "hydrant_uncertain" THEN 55
    ELSE IF r.type \in {"no_standing", "no parking"} /\ ~r.valid THEN 90
    ELSE IF /\ r.type \in {"street_cleaning", "no_standing"}
            /\ r.active_now # Some(TRUE)
            /\ r.time_left \notin {None, Some("")} THEN 60
    ELSE IF r.type = "metered" /\ r.valid THEN 30
    ELSE 0

BlockedEligible(r) == ClaimFloor(r) \in {90, 92, 93, 94, 95, 97}
CautionEligible(r) == ClaimFloor(r) \in {30, 55, 60}

Decided == decision # None

RuleIndexes == 1..Len(rules)

\* C1: a rule list that contains at least one rule matching a blocked branch
\* is decided blocked, wherever that rule stands in the list and whatever
\* caution-matching rules the list also contains.
C1_BlockedBeatsCaution ==
    Decided =>
        ((\E i \in RuleIndexes : BlockedEligible(rules[i])) => decision[1].status = "blocked")

\* A caution-matching rule first and a blocked-matching rule after it.
C1_Witness ==
    /\ Decided
    /\ Len(rules) = 2
    /\ CautionEligible(rules[1])
    /\ BlockedEligible(rules[2])
    /\ decision[1].status = "blocked"

FirstIndex(P(_)) == CHOOSE i \in RuleIndexes : P(rules[i]) /\ \A j \in 1..(i - 1) : ~P(rules[j])

\* C5: the primary_reason of a blocked decision is the reason contributed by
\* the first blocked-matching rule of the list, and of a caution decision by
\* the first caution-matching rule; of two blocked-matching rules A, B with
\* different reasons, [A, B] reports A's reason and [B, A] reports B's.
C5_FirstReasonWins ==
    Decided =>
        /\ decision[1].status = "blocked" =>
             /\ \E i \in RuleIndexes : BlockedEligible(rules[i])
             /\ decision[1].primary_reason =
                  BranchReason(rules[FirstIndex(BlockedEligible)],
                               MatchedBranch(rules[FirstIndex(BlockedEligible)]))
        /\ decision[1].status = "caution" =>
             /\ \E i \in RuleIndexes : CautionEligible(rules[i])
             /\ decision[1].primary_reason =
                  BranchReason(rules[FirstIndex(CautionEligible)],
                               MatchedBranch(rules[FirstIndex(CautionEligible)]))
        /\ (Len(rules) = 2 /\ BlockedEligible(rules[1]) /\ BlockedEligible(rules[2])) =>
             /\ decision[1].primary_reason = BranchReason(rules[1], MatchedBranch(rules[1]))
             /\ derive_parking_decision(<< rules[2], rules[1] >>).primary_reason =
                  BranchReason(rules[2], MatchedBranch(rules[2]))

\* Two blocked-matching rules whose reasons differ.
C5_Witness ==
    /\ Decided
    /\ Len(rules) = 2
    /\ BlockedEligible(rules[1]) /\ BlockedEligible(rules[2])
    /\ TruthyStr(rules[1].reason) /\ TruthyStr(rules[2].reason)
    /\ rules[1].reason # rules[2].reason
    /\ decision[1].primary_reason = rules[1].reason[1]
    /\ derive_parking_decision(<< rules[2], rules[1] >>).primary_reason = rules[2].reason[1]

IndexPermutations(n) == { f \in [1..n -> 1..n] : \A i, j \in 1..n : f[i] = f[j] => i = j }
Reorder(s, f) == [ i \in 1..Len(s) |-> s[f[i]] ]

\* C6: the status and the risk_score are the same for every permutation of
\* the rule list.
C6_OrderInsensitive ==
    phase = "decided" =>
        \A f \in IndexPermutations(Len(rules)) :
            /\ derive_parking_decision(Reorder(rules, f)).status = decision[1].status
            /\ derive_parking_decision(Reorder(rules, f)).risk_score = decision[1].risk_score

\* Two matching rules with different floors, the higher one first.
C6_Witness ==
    /\ phase = "decided"
    /\ Len(rules) = 2
    /\ ClaimFloor(rules[1]) > ClaimFloor(rules[2])
    /\ ClaimFloor(rules[2]) > 0
    /\ derive_parking_decision(<< rules[2], rules[1] >>).risk_score = decision[1].risk_score

MaxFloor == CHOOSE m \in { ClaimFloor(rules[i]) : i \in RuleIndexes } :
                \A j \in RuleIndexes : ClaimFloor(rules[j]) <= m

\* C7: when at least one rule matches, the risk_score is the maximum of the
\* score floors of the matched rules; a single hydrant_proximity rule with
\* valid = false gives blocked with risk_score 97.
C7_ScoreIsMaxFloor ==
    Decided =>
        /\ (\E i \in RuleIndexes : ClaimFloor(rules[i]) > 0) => decision[1].risk_score = MaxFloor
        /\ (Len(rules) = 1 /\ rules[1].type = "hydrant_proximity" /\ ~rules[1].valid) =>
             decision[1].status = "blocked" /\ decision[1].risk_score = 97

C7_Witness ==
    /\ Decided
    /\ Len(rules) = 1 /\ rules[1].type = "hydrant_proximity" /\ ~rules[1].valid
    /\ decision[1].status = "blocked" /\ decision[1].risk_score = 97

InactiveMeter(r) == \E status \in MeterStatuses : r = parse_meter_record(status, None) /\ ~r.valid
ValidFallback(r) == \E ot \in FallbackOrderTypes : r = FallbackRule(ot, NoDescription)

SafeTen == decision[1].status = "safe" /\ decision[1].risk_score = 10

\* C8 as stated: safe with risk_score 10 if and only if no rule matches a
\* branch; in particular a list made only of inactive meters or of valid
\* fallback rules gives safe/10.
C8_AsStated ==
    Decided =>
        /\ SafeTen <=> \A i \in RuleIndexes : ClaimFloor(rules[i]) = 0
        /\ (\A i \in RuleIndexes : InactiveMeter(rules[i]) \/ ValidFallback(rules[i])) => SafeTen

\* C8 (amended): safe with risk_score 10 if and only if no rule matches a
\* branch; the empty list gives safe/10, and so does a list made only of
\* inactive meters or of valid fallback rules whose type is neither
\* "metered" nor "hydrant_uncertain".
C8_SafeIffNoMatch ==
    Decided =>
        /\ SafeTen <=> \A i \in RuleIndexes : ClaimFloor(rules[i]) = 0
        /\ rules = << >> => SafeTen
        /\ (\A i \in RuleIndexes :
              \/ InactiveMeter(rules[i])
              \/ ValidFallback(rules[i]) /\ rules[i].type \notin {"metered", "hydrant_uncertain"})
           => SafeTen

\* An inactive meter and a fallback rule, decided safe.
C8_Witness ==
    /\ Decided
    /\ Len(rules) = 2
    /\ InactiveMeter(rules[1])
    /\ ValidFallback(rules[2])
    /\ SafeTen

(***************************************************************************)
(* Properties of the violation estimator                                   *)
(***************************************************************************)
Enriched == phase # "collect"

Priced == { i \in RuleIndexes : rules[i].violation_estimate # None }

RECURSIVE SumFines(_, _)
SumFines(idx, field) ==
    IF idx = {} THEN 0
    ELSE LET i == CHOOSE k \in idx : TRUE
         IN  rules[i].violation_estimate[1][field] + SumFines(idx \ {i}, field)

Summarized == violation_summary # None

Evaluated == evaluation # None

\* The reference instant of the evaluation in the variable `evaluation`.
Reference == LocalNow(now)

\* datetime + timedelta
DtPlus(dt, td) ==
    [ day |-> dt.day + td.days
                + (dt.sec + td.seconds + (dt.us + td.microseconds) \div MicrosPerSecond)
                    \div SecondsPerDay,
      sec |-> (dt.sec + td.seconds + (dt.us + td.microseconds) \div MicrosPerSecond)
                % SecondsPerDay,
      us |-> (dt.us + td.microseconds) % MicrosPerSecond ]

\* C3: the countdown is never negative; when the window is active it is
\* current_end - reference with the mode "until_end", otherwise it is
\* next_start - reference with the mode "until_start".
C3_CountdownNonNegative ==
    Evaluated =>
        /\ evaluation[1].countdown.days >= 0
        /\ evaluation[1].countdown.seconds \in 0..(SecondsPerDay - 1)
        /\ evaluation[1].countdown.microseconds \in 0..(MicrosPerSecond - 1)
        /\ evaluation[1].active_now =>
             /\ evaluation[1].countdown_mode = "until_end"
             /\ DtPlus(Reference, evaluation[1].countdown) = evaluation[1].current_end[1]
        /\ ~evaluation[1].active_now =>
             /\ evaluation[1].countdown_mode = "until_start"
             /\ DtPlus(Reference, evaluation[1].countdown) = evaluation[1].next_start

\* Inside a window that runs over midnight, the end being on the next day;
\* the next start is still ahead of the reference.
C3_Witness ==
    /\ Evaluated
    /\ evaluation[1].active_now
    /\ evaluation[1].countdown_mode = "until_end"
    /\ evaluation[1].current_end[1].day = Reference.day + 1
    /\ evaluation[1].countdown.days = 0 /\ evaluation[1].countdown.seconds > 0
    /\ DtLess(Reference, evaluation[1].next_start)

\* C4 as stated: active_now implies current_end > reference > current_start,
\* both strict; otherwise next_start >= reference.
C4_AsStated ==
    Evaluated =>
        /\ evaluation[1].active_now =>
             /\ DtLess(Reference, evaluation[1].current_end[1])
             /\ DtLess(evaluation[1].current_start[1], Reference)
        /\ ~evaluation[1].active_now => DtLessEq(Reference, evaluation[1].next_start)

\* C4 (amended): active_now implies current_end > reference >= current_start,
\* the window being closed at its start and open at its end; otherwise
\* next_start >= reference.
C4_WindowBounds ==
    Evaluated =>
        /\ evaluation[1].active_now =>
             /\ DtLess(Reference, evaluation[1].current_end[1])
             /\ DtLessEq(evaluation[1].current_start[1], Reference)
        /\ ~evaluation[1].active_now => DtLessEq(Reference, evaluation[1].next_start)

\* The reference is the very instant the window starts.
C4_Witness ==
    /\ Evaluated
    /\ evaluation[1].active_now
    /\ evaluation[1].current_start = Some(Reference)
    /\ DtLess(Reference, evaluation[1].current_end[1])

(***************************************************************************)
(* Properties of the days parser                                           *)
(***************************************************************************)
DaysParsed == days_result # None

\* The words the parser knows: the day names and the whole-spec aliases.
KnownDayWords ==
    DOMAIN DAY_TO_INDEX \cup {"daily", "everyday", "all", "all days", "weekdays", "weekends"}

\* A spec that is absent, empty, or holds none of the words the parser knows.
Unrecognised(days_spec) ==
    \/ days_spec = None
    \/ \A w \in KnownDayWords : ~Contains(lower(days_spec[1]), w)

\* C10: parse_days_spec returns a non-empty subset of {0..6}; for an empty,
\* an absent or a wholly unrecognised input it returns {0, 1, 2, 3, 4}.
C10_DaysNonEmpty ==
    DaysParsed =>
        /\ days_result[1] # {}
        /\ days_result[1] \subseteq 0..6
        /\ Unrecognised(days_arg) => days_result[1] = {0, 1, 2, 3, 4}

\* A non-empty spec without any day in it.
C10_Witness ==
    /\ DaysParsed
    /\ days_arg # None /\ days_arg # Some("")
    /\ Unrecognised(days_arg)
    /\ days_result[1] = {0, 1, 2, 3, 4}

(***************************************************************************)
(* The activity test of the window evaluator                               *)
(***************************************************************************)
\* The arguments of the evaluation as the evaluator reads them.
ClaimDays == parse_days_spec(win_days)
ClaimStartSec ==
    parse_time_value(win_start, MkTime(6, 0)).hour * 3600
        + parse_time_value(win_start, MkTime(6, 0)).minute * 60
        + parse_time_value(win_start, MkTime(6, 0)).second
ClaimEndSec ==
    parse_time_value(win_end, MkTime(9, 0)).hour * 3600
        + parse_time_value(win_end, MkTime(9, 0)).minute * 60
        + parse_time_value(win_end, MkTime(9, 0)).second

Overnight == ClaimEndSec <= ClaimStartSec

\* The window that starts on day d.
StartOn(d) == [day |-> d, sec |-> ClaimStartSec, us |-> 0]
EndOf(d) == [day |-> IF Overnight THEN d + 1 ELSE d, sec |-> ClaimEndSec, us |-> 0]

InWindowOf(d) == DtLessEq(StartOn(d), Reference) /\ DtLess(Reference, EndOf(d))

\* C14: active_now is true if and only if the weekday of the reference
\* instant is an active day and the reference lies in [today's start,
\* today's end); current_start and current_end are set exactly when
\* active_now is true.
C14_ActiveIffInTodaysWindow ==
    Evaluated =>
        /\ evaluation[1].active_now <=>
             (Reference.day % 7 \in ClaimDays /\ InWindowOf(Reference.day))
        /\ evaluation[1].current_start # None <=> evaluation[1].active_now
        /\ evaluation[1].current_end # None <=> evaluation[1].active_now
        /\ evaluation[1].active_now =>
             /\ evaluation[1].current_start = Some(StartOn(Reference.day))
             /\ evaluation[1].current_end = Some(EndOf(Reference.day))

\* On an active day, before midnight inside a window that ends on the next
\* day.
C14_Witness ==
    /\ Evaluated
    /\ evaluation[1].active_now
    /\ Overnight
    /\ Reference.sec > ClaimStartSec
    /\ evaluation[1].current_start = Some(StartOn(Reference.day))
    /\ evaluation[1].current_end[1].day = Reference.day + 1

\* C15: a window whose end time is <= its start time and that starts on an
\* active day D is active at every instant of [D at start, D+1 at end), the
\* instants after midnight on day D+1 included; at an instant of an active
\* day between the end time and the start time it is not active, and
\* next_start is that day at the start time.
C15_OvernightWholeInterval ==
    (Evaluated /\ Overnight) =>
        /\ \A d \in {Reference.day - 1, Reference.day} :
             (d % 7 \in ClaimDays /\ InWindowOf(d)) => evaluation[1].active_now
        /\ ( /\ Reference.day % 7 \in ClaimDays
             /\ ClaimEndSec <= Reference.sec
             /\ Reference.sec < ClaimStartSec )
           => /\ ~evaluation[1].active_now
              /\ evaluation[1].next_start = StartOn(Reference.day)

(***************************************************************************)
(* The reason a decision reports                                           *)
(***************************************************************************)
\* The rule that drives the decision: the first blocked-matching rule of a
\* blocked decision, the first caution-matching rule of a caution decision.
HasDriver == Decided /\ decision[1].status \in {"blocked", "caution"}
Driver ==
    IF decision[1].status = "blocked"
    THEN rules[FirstIndex(BlockedEligible)]
    ELSE rules[FirstIndex(CautionEligible)]

\* C20: when the rule that drives the decision has a non-empty reason, the
\* primary_reason is that reason verbatim, whatever the type of the rule.
C20_ReasonVerbatim ==
    (HasDriver /\ TruthyStr(Driver.reason)) => decision[1].primary_reason = Driver.reason[1]

(***************************************************************************)
(* SpecClassify: one call of parse_regulation_record                       *)
(***************************************************************************)
SignTexts ==
    { "No Standing Anytime", "NO STANDING 7AM-7PM", "No Standing Taxi Stand",
      "no standing 10 pm - 6 am daily truck loading",
      "Alternate Side Parking No Standing", "Truck Loading Only", "Loading Zone",
      "Commercial Vehicles Only", "Taxi Stand No Loading", "Taxi Stand",
      "FHV Pickup Zone", "Fire Lane NYPD", "FDNY Official Vehicles Only",
      "NYPD Official Vehicles Only", "Fire Marshal Official Vehicles Only",
      "School Authorized Vehicles Only", "Authorized Vehicles Only", "2 Hour Parking",
      "Taxi Stand and FHV Pickup Zone" }

RecordInputs ==
    { [ order_type |-> ot, sign_desc |-> sd, description |-> None,
        time_from |-> tw[1], time_to |-> tw[2], days |-> d ] :
        ot \in { None, Some("Parking"), Some("no_standing"), Some("Street Cleaning") },
        sd \in { Some(t) : t \in SignTexts },
        tw \in { << None, None >>, << Some("06:00"), Some("09:00") >> },
        d \in { None, Some("Sat") } }
    \cup { [ order_type |-> None, sign_desc |-> sd, description |-> Some("Loading Zone"),
             time_from |-> None, time_to |-> None, days |-> None ] :
             sd \in { None, Some("") } }

VehicleInputs ==
    { [vehicle_type |-> "passenger", commercial_plate |-> FALSE, agency_affiliation |-> a] :
        a \in { "none", "police", "fire", "school", "city" } }
    \cup { [vehicle_type |-> "truck", commercial_plate |-> p, agency_affiliation |-> "none"] :
             p \in BOOLEAN }
    \cup { [vehicle_type |-> t, commercial_plate |-> TRUE, agency_affiliation |-> "none"] :
             t \in { "taxi", "fhv" } }

\* Monday and Saturday, inside and outside the morning window.
ClassifyNowInputs ==
    { n \in NowInputs :
        /\ ~n.aware
        /\ n.dt.day \in {0, 5}
        /\ << n.dt.sec, n.dt.us >> \in { << 7 * 3600 + 15 * 60, 0 >>, << 12 * 3600, 0 >> } }

InitClassify ==
    /\ reg \in RecordInputs
    /\ vehicle \in VehicleInputs
    /\ now \in ClassifyNowInputs
    /\ classified = None
    /\ win_days = None /\ win_start = None /\ win_end = None /\ evaluation = None
    /\ DaysIdle /\ EvalIdle /\ LoaderIdle /\ CacheIdle
    /\ OthersIdle

Classify ==
    /\ classified = None
    /\ classified' = Some(parse_regulation_record(reg, now, vehicle))
    /\ UNCHANGED << days_arg, days_result, now, win_days, win_start, win_end, evaluation,
                    fine_bands, rules, phase, decision, violation_summary >>
    /\ UNCHANGED << reg, vehicle, loaderVars, cacheVars, counterVars, hydrantVars, endpoint_decision >>

NextClassify == Classify

SpecClassify == InitClassify /\ [][NextClassify]_vars

(***************************************************************************)
(* Properties of the record classifier                                     *)
(***************************************************************************)
Classified == classified # None

\* The text and the order_type the categories are triggered by.
RecordText == lower(DescriptionOf(reg))
RecordOrderType == lower(GetOr(reg.order_type, "unknown"))

\* The triggers of the categories as the design lists them.
TriggersCleaning == Contains(RecordOrderType, "clean") \/ Contains(RecordText, "alternate side")
TriggersNoStanding == RecordOrderType = "no_standing" \/ Contains(RecordText, "no standing")
TriggersLoading ==
    \E w \in {"loading", "truck loading", "commercial vehicles only", "trucks only"} :
        Contains(RecordText, w)
TriggersTaxi ==
    \E w \in {"taxi stand", "taxi only", "taxicab", "taxi zone"} : Contains(RecordText, w)
TriggersFhv ==
    /\ \E w \in {"for-hire", "for hire", "fhv", "tlc"} : Contains(RecordText, w)
    /\ \E w \in {"stand", "pickup", "pick-up", "only", "zone"} : Contains(RecordText, w)
TriggersFire ==
    \E w \in {"fire zone", "fire lane", "fire department", "fdny", "emergency access"} :
        Contains(RecordText, w)
TriggersOfficial ==
    \E w \in {"police only", "nypd", "department vehicles only", "official vehicles only",
              "authorized vehicles only", "government vehicles only", "agency vehicles only"} :
        Contains(RecordText, w)

\* Both a start and an end time are resolved, from the fields or the text.
TimesResolved ==
    /\ TruthyStr(OptOr(reg.time_from, _extract_time_window_from_text(DescriptionOf(reg))[1]))
    /\ TruthyStr(OptOr(reg.time_to, _extract_time_window_from_text(DescriptionOf(reg))[2]))

\* The type of the earliest category of the fixed order, no_standing being
\* taken when `no_standing_taken` holds.
EarliestType(no_standing_taken) ==
    IF TriggersCleaning THEN "street_cleaning"
    ELSE IF no_standing_taken THEN "no_standing"
    ELSE IF TriggersLoading
    THEN (IF Contains(RecordText, "truck") THEN "truck_loading_only" ELSE "loading_only")
    ELSE IF TriggersTaxi THEN "taxi_only"
    ELSE IF TriggersFhv THEN "fhv_only"
    ELSE IF TriggersFire THEN "fire_zone"
    ELSE IF TriggersOfficial THEN "official_vehicle_only"
    ELSE RecordOrderType

\* C11 as stated: the record gets the type of the earliest category, in the
\* order street_cleaning, no_standing, loading, taxi/fhv, fire_zone,
\* official_vehicle_only, fallback, whose trigger its text matches.
C11_AsStated ==
    Classified => classified[1].type = EarliestType(TriggersNoStanding)

\* C11 (amended): the same, the no_standing category being taken only when
\* its trigger matches and both a start and an end time are resolved; a
\* record that triggers it without them is tested against the later
\* categories. A description with a taxi trigger and a loading token is
\* loading_only or truck_loading_only, never taxi_only.
C11_FirstCategoryWins ==
    Classified =>
        /\ classified[1].type = EarliestType(TriggersNoStanding /\ TimesResolved)
        /\ (TriggersTaxi /\ TriggersLoading /\ ~TriggersCleaning /\ ~TriggersNoStanding) =>
             classified[1].type \in {"loading_only", "truck_loading_only"}

\* A description with a taxi trigger and a loading token.
C11_Witness ==
    /\ Classified
    /\ TriggersTaxi /\ TriggersLoading /\ ~TriggersCleaning /\ ~TriggersNoStanding
    /\ classified[1].type = "loading_only"

\* C12: a loading_only or truck_loading_only rule is valid if and only if
\* the vehicle is a truck with a commercial plate; its type is
\* truck_loading_only exactly when the description contains "truck". "Truck
\* Loading Only" is invalid for a passenger vehicle and valid for a
\* commercial-plated truck.
C12_LoadingValidity ==
    (Classified /\ classified[1].type \in {"loading_only", "truck_loading_only"}) =>
        /\ classified[1].valid <=> (vehicle.vehicle_type = "truck" /\ vehicle.commercial_plate)
        /\ classified[1].type = "truck_loading_only" <=> Contains(RecordText, "truck")
        /\ (reg.sign_desc = Some("Truck Loading Only") /\ vehicle.vehicle_type = "passenger") =>
             ~classified[1].valid
        /\ ( /\ reg.sign_desc = Some("Truck Loading Only")
             /\ vehicle.vehicle_type = "truck" /\ vehicle.commercial_plate ) =>
             classified[1].valid

\* "Truck Loading Only" for a truck without a commercial plate.
C12_Witness ==
    /\ Classified
    /\ reg.sign_desc = Some("Truck Loading Only")
    /\ vehicle.vehicle_type = "truck" /\ ~vehicle.commercial_plate
    /\ classified[1].type = "truck_loading_only"
    /\ ~classified[1].valid

\* The eligible agencies of an official-vehicle sign as the design lists them.
ClaimEligible ==
    IF Contains(RecordText, "police") \/ Contains(RecordText, "nypd") THEN {"police"}
    ELSE IF Contains(RecordText, "fire") \/ Contains(RecordText, "fdny") THEN {"fire"}
    ELSE IF Contains(RecordText, "school") THEN {"school"}
    ELSE {"city", "police", "fire", "school"}

\* C13: an official_vehicle_only rule has the eligible set of the first
\* matching keyword group and is valid if and only if the agency is in that
\* set; the agency "none" is never valid and an NYPD sign is valid only for
\* the agency "police".
C13_OfficialValidity ==
    (Classified /\ classified[1].type = "official_vehicle_only") =>
        /\ { classified[1].eligible_vehicle_types[1][i] :
               i \in 1..Len(classified[1].eligible_vehicle_types[1]) } = ClaimEligible
        /\ classified[1].valid <=> vehicle.agency_affiliation \in ClaimEligible
        /\ vehicle.agency_affiliation = "none" => ~classified[1].valid
        /\ Contains(RecordText, "nypd") =>
             (classified[1].valid <=> vehicle.agency_affiliation = "police")

\* An NYPD sign and the agency "police".
C13_Witness ==
    /\ Classified
    /\ reg.sign_desc = Some("NYPD Official Vehicles Only")
    /\ vehicle.agency_affiliation = "police"
    /\ classified[1].type = "official_vehicle_only"
    /\ classified[1].valid

\* The window of the street-cleaning record is active at the reference.
CleaningWindowActive ==
    evaluate_recurring_window(now, Some(GetOr(reg.days, "Mon-Fri")),
                              Some(GetOr(reg.time_from, "06:00")),
                              Some(GetOr(reg.time_to, "09:00"))).active_now

\* The record Mon-Fri 06:00-09:00 at Monday 07:15 local.
MondayMorningScenario ==
    /\ reg.days = None
    /\ reg.time_from \in {None, Some("06:00")} /\ reg.time_to \in {None, Some("09:00")}
    /\ now.dt = [day |-> 0, sec |-> 7 * 3600 + 15 * 60, us |-> 0]

\* The rule lists that hold the classified rule and at most one other rule.
ListsWith(rule) ==
    { << rule >> } \cup { << rule, r >> : r \in DirectRules } \cup { << r, rule >> : r \in DirectRules }

LoaderFiles == CatalogFiles \cup { [kind |-> "not_object"], [kind |-> "infinite_fine"] }

\* The body of _load_fine_bands (lines 27-70) on the file as it is: the
\* catalog it returns, or the exception it raises. json.loads of a list, a
\* string, a number or null succeeds, and payload.get (line 47) then raises
\* AttributeError, which the try of lines 42-45 does not cover. int() of an
\* infinite float (lines 58-59) raises OverflowError, which the except of
\* line 66 does not name.
LoaderBody(file) ==
    IF file.kind = "not_object"
    THEN [ file |-> file, raised |-> Some("AttributeError"), bands |-> None ]
    ELSE IF file.kind = "infinite_fine"
    THEN [ file |-> file, raised |-> Some("OverflowError"), bands |-> None ]
    ELSE [ file |-> file, raised |-> None, bands |-> Some(_load_fine_bands(file)) ]

InitLoader ==
    /\ catalog_file \in LoaderFiles
    /\ thread_pc = [t \in Threads |-> "idle"]
    /\ thread_loaded = [t \in Threads |-> None]
    /\ thread_result = [t \in Threads |-> None]
    /\ loads = 0
    /\ DaysIdle /\ WindowIdle /\ EvalIdle /\ ClassifierIdle /\ CacheIdle
    /\ OthersIdle

EvalFrame ==
    UNCHANGED << days_arg, days_result, now, win_days, win_start, win_end, evaluation,
                 rules, phase, decision, violation_summary, classifierVars, cacheVars,
                 counterVars, hydrantVars, endpoint_decision >>

\* The wrapper's lookup: a hit returns the cached catalog.
LookupCache(t) ==
    /\ thread_pc[t] = "idle"
    /\ IF fine_bands # None
       THEN /\ thread_pc' = [thread_pc EXCEPT ![t] = "done"]
            /\ thread_result' = [thread_result EXCEPT
                                   ![t] = Some([raised |-> None, bands |-> fine_bands])]
       ELSE /\ thread_pc' = [thread_pc EXCEPT ![t] = "miss"]
            /\ UNCHANGED thread_result
    /\ UNCHANGED << fine_bands, catalog_file, thread_loaded, loads >>
    /\ EvalFrame

\* After a miss the thread runs the loader body, which reads the file.
RunLoader(t) ==
    /\ thread_pc[t] = "miss"
    /\ thread_loaded' = [thread_loaded EXCEPT ![t] = Some(LoaderBody(catalog_file))]
    /\ loads' = loads + 1
    /\ thread_pc' = [thread_pc EXCEPT ![t] = "loaded"]
    /\ UNCHANGED << fine_bands, catalog_file, thread_result >>
    /\ EvalFrame

\* The wrapper stores the result if the key is still missing and returns
\* the result of its own call; an exception propagates.
StoreResult(t) ==
    /\ thread_pc[t] = "loaded"
    /\ fine_bands' = IF thread_loaded[t][1].raised = None /\ fine_bands = None
                     THEN thread_loaded[t][1].bands
                     ELSE fine_bands
    /\ thread_result' = [thread_result EXCEPT
                           ![t] = Some([raised |-> thread_loaded[t][1].raised,
                                        bands |-> thread_loaded[t][1].bands])]
    /\ thread_pc' = [thread_pc EXCEPT ![t] = "done"]
    /\ UNCHANGED << catalog_file, thread_loaded, loads >>
    /\ EvalFrame

\* The file is replaced on disk while the process runs.
RewriteCatalog ==
    /\ \E t \in Threads : thread_pc[t] # "done"
    /\ \E file \in LoaderFiles \ {catalog_file} : catalog_file' = file
    /\ UNCHANGED << fine_bands, thread_pc, thread_loaded, thread_result, loads >>
    /\ EvalFrame

NextLoader ==
    \/ \E t \in Threads : LookupCache(t)
    \/ \E t \in Threads : RunLoader(t)
    \/ \E t \in Threads : StoreResult(t)
    \/ RewriteCatalog

SpecLoader == InitLoader /\ [][NextLoader]_vars

(***************************************************************************)
(* Properties of the catalog loader                                        *)
(***************************************************************************)
\* C16: under every interleaving of concurrent first calls the loader body
\* reads the file at most once per process, and every call observes the
\* same catalog.
C16_LoadedAtMostOnce ==
    /\ loads <= 1
    /\ \A t1, t2 \in Threads :
         (thread_result[t1] # None /\ thread_result[t2] # None) =>
             thread_result[t1][1].bands = thread_result[t2][1].bands

\* The file yields no usable entry.
NoUsableEntry(file) ==
    \/ file.kind # "object"
    \/ file.rules = None
    \/ ~file.rules[1].is_dict
    \/ \A t \in DOMAIN file.rules[1].entries : ~EntryUsable(file.rules[1].entries[t])

\* C17: for every state of the catalog file the loader body returns a
\* catalog without raising, and it returns the built-in default band set
\* whenever the file yields no usable entry.
C17_LoaderNeverRaises ==
    \A t \in Threads :
        thread_loaded[t] # None =>
            /\ thread_loaded[t][1].raised = None
            /\ thread_loaded[t][1].bands # None
            /\ NoUsableEntry(thread_loaded[t][1].file) =>
                 thread_loaded[t][1].bands = Some(FallbackBands)

(***************************************************************************)
(* cache_store.TTLCache, one call at a time. Times are whole seconds of    *)
(* datetime.now(UTC). The counters _hits, _misses and _expirations are     *)
(* read by stats() only; the specification of concurrent callers further   *)
(* down keeps them.                                                        *)
(***************************************************************************)
MaxClock == 4
CacheValues == {"rows1", "rows2"}
TtlInputs == {0 - 1, 0, 1, 2}

_CacheEntry(value, expires_at, created_at) ==
    [ value |-> value, expires_at |-> expires_at, created_at |-> created_at ]

\* A faulty variant of the expiry test: an entry is still served at the
\* instant it expires.
EntryExpired_AtExpiryServed(entry, at) == entry.expires_at < at

\* The expiry test of get_with_meta (line 35).
EntryExpired(entry, at) == entry.expires_at <= at

\* The value get returns (lines 30-41) and the store it leaves.
GetValue(entries, key, at) ==
    IF entries[key] = None THEN None
    ELSE IF EntryExpired(entries[key][1], at) THEN None
    ELSE Some(entries[key][1].value)

GetStore(entries, key, at) ==
    IF entries[key] # None /\ EntryExpired(entries[key][1], at)
    THEN [entries EXCEPT ![key] = None]
    ELSE entries

InitCache ==
    /\ CacheIdle
    /\ DaysIdle /\ WindowIdle /\ EvalIdle /\ ClassifierIdle /\ LoaderIdle
    /\ OthersIdle

CacheFrame ==
    UNCHANGED << days_arg, days_result, now, win_days, win_start, win_end, evaluation,
                 fine_bands, rules, phase, decision, violation_summary,
                 classifierVars, loaderVars, counterVars, hydrantVars, endpoint_decision >>

\* What the concurrent callers of the cache leave alone.
CacheFrameNoCounters ==
    UNCHANGED << days_arg, days_result, now, win_days, win_start, win_end, evaluation,
                 fine_bands, rules, phase, decision, violation_summary,
                 classifierVars, loaderVars, hydrantVars, endpoint_decision >>

\* get(key): the clock is read, then the entry is looked up under the lock.
CacheGet(key) ==
    /\ got' = Some([ key |-> key, at |-> clock, value |-> GetValue(store, key, clock) ])
    /\ store' = GetStore(store, key, clock)
    /\ UNCHANGED << clock, last_set >>
    /\ CacheFrame

\* set(key, value, ttl_seconds) (lines 43-53).
CacheSet(key, value, ttl_seconds) ==
    /\ IF ttl_seconds <= 0
       THEN UNCHANGED << store, last_set >>
       ELSE LET entry == _CacheEntry(value, clock + ttl_seconds, clock)
            IN  /\ store' = [store EXCEPT ![key] = Some(entry)]
                /\ last_set' = [last_set EXCEPT ![key] = Some(entry)]
    /\ got' = None
    /\ UNCHANGED clock
    /\ CacheFrame

\* clear() (lines 55-57).
CacheClear ==
    /\ store' = [k \in CacheKeys |-> None]
    /\ last_set' = [k \in CacheKeys |-> None]
    /\ got' = None
    /\ UNCHANGED clock
    /\ CacheFrame

\* A second passes.
ClockAdvance ==
    /\ clock < MaxClock
    /\ clock' = clock + 1
    /\ UNCHANGED << store, last_set, got >>
    /\ CacheFrame

NextCache ==
    \/ \E key \in CacheKeys : CacheGet(key)
    \/ \E key \in CacheKeys, value \in CacheValues, ttl_seconds \in TtlInputs :
          CacheSet(key, value, ttl_seconds)
    \/ CacheClear
    \/ ClockAdvance

SpecCache == InitCache /\ [][NextCache]_vars

(***************************************************************************)
(* Properties of the TTL cache                                             *)
(***************************************************************************)
\* The latest effective set on the key of the latest get, if any.
GotSet == last_set[got[1].key]

\* The claim's condition for the latest get to return a value.
GotFresh == GotSet # None /\ got[1].at < GotSet[1].expires_at

\* C18: in every sequence of set, get and clear calls and clock advances,
\* get(k) returns v exactly when the latest set on k with a positive ttl
\* stored v, no clear was called since, and the clock the get read is
\* strictly before the entry's expires_at; otherwise it returns absent, and
\* after a get on an expired entry the key is not in the store.
C18_GetIffFresh ==
    got # None =>
        /\ GotFresh => got[1].value = Some(GotSet[1].value)
        /\ ~GotFresh => got[1].value = None
        /\ (GotSet # None /\ ~GotFresh) => store[got[1].key] = None

\* A get at the very second its entry expires, while the other key is stored.
C18_Witness ==
    /\ got # None
    /\ GotSet # None
    /\ got[1].at = GotSet[1].expires_at
    /\ got[1].value = None
    /\ store[got[1].key] = None
    /\ \E k \in CacheKeys : k # got[1].key /\ store[k] # None

(***************************************************************************)
(* Further properties of the decision engine                               *)
(***************************************************************************)
\* The accumulators when the loop over the current rule list has ended.
LoopEnd ==
    LoopFrom(rules, 1, [blocked_reasons |-> << >>, caution_reasons |-> << >>, risk_score |-> 0])

\* C22: for every rule list the risk_score of the decision lies in 0..100
\* and is stratified by status: exactly 10 for safe, one of 30, 55, 60 for
\* caution, one of 90, 92, 93, 94, 95, 97 for blocked; and the defaults of
\* the final reduction never supply the score, the accumulated score being
\* at least 30 whenever a rule matched.
C22_ScoreStratified ==
    Decided =>
        /\ decision[1].status \in {"safe", "caution", "blocked"}
        /\ decision[1].risk_score \in 0..100
        /\ decision[1].status = "safe" => decision[1].risk_score = 10
        /\ decision[1].status = "caution" => decision[1].risk_score \in {30, 55, 60}
        /\ decision[1].status = "blocked" =>
               decision[1].risk_score \in {90, 92, 93, 94, 95, 97}
        /\ decision[1].status # "safe" =>
               /\ LoopEnd.risk_score >= 30
               /\ decision[1].risk_score = LoopEnd.risk_score

\* A caution decision whose score comes from the higher of two caution rules.
C22_Witness ==
    /\ Decided
    /\ Len(rules) = 2
    /\ decision[1].status = "caution"
    /\ decision[1].risk_score = 60
    /\ ClaimFloor(rules[1]) = 60
    /\ ClaimFloor(rules[2]) = 30

StatusRank(status) ==
    CASE status = "safe" -> 0 [] status = "caution" -> 1 [] status = "blocked" -> 2

\* The current rule list without its last rule.
RulesBefore == SubSeq(rules, 1, Len(rules) - 1)

\* C28: appending a rule to a rule list never lowers the decision: in the
\* order safe < caution < blocked the status of the longer list is at least
\* the status of the shorter one, and so is its risk_score.
C28_AppendMonotone ==
    rules # << >> =>
        /\ StatusRank(derive_parking_decision(rules).status) >=
               StatusRank(derive_parking_decision(RulesBefore).status)
        /\ derive_parking_decision(rules).risk_score >=
               derive_parking_decision(RulesBefore).risk_score

\* A rule with a low floor is appended to a list with a higher one.
C28_Witness ==
    /\ Len(rules) = 2
    /\ ClaimFloor(rules[1]) = 97
    /\ ClaimFloor(rules[2]) = 30
    /\ derive_parking_decision(rules).risk_score = 97

(***************************************************************************)
(* Ranges and lists of the days parser                                     *)
(***************************************************************************)
\* The day names of the inputs and their place in the week, Monday first.
ClaimDayIndex ==
    [ w \in { "Mon", "tues", "WED", "thursday", "Fri", "sat", "Sun" } |->
        CASE w = "Mon" -> 0 [] w = "tues" -> 1 [] w = "WED" -> 2 [] w = "thursday" -> 3
          [] w = "Fri" -> 4 [] w = "sat" -> 5 [] w = "Sun" -> 6 ]

ClaimDayNames == DOMAIN ClaimDayIndex

\* The inclusive range from day i to day j, wrapped across the week
\* boundary when i lies after j.
ClaimRange(i, j) == IF i <= j THEN i..j ELSE (i..6) \cup (0..j)

\* The separators of a list: the comma and what is treated as one.
ClaimListSeparators == { ",", "&", "/", " and ", ";" }

\* C24: for every pair of recognised day tokens a, b the spec "a-b" is
\* expanded inclusively, as {a..b} when a is not after b in the week and as
\* {a..6} \cup {0..b} otherwise (Fri-Mon is {4, 5, 6, 0}); a list of days
\* and ranges yields the union of its parts, with "&", "/", " and " and ";"
\* separating like the comma.
C24_RangesAndLists ==
    DaysParsed =>
        /\ days_arg = Some("Fri-Mon") => days_result[1] = {4, 5, 6, 0}
        /\ \A a \in ClaimDayNames, b \in ClaimDayNames :
             /\ days_arg = Some(a \o "-" \o b) =>
                    days_result[1] = ClaimRange(ClaimDayIndex[a], ClaimDayIndex[b])
             /\ \A sep \in ClaimListSeparators :
                  /\ days_arg = Some(a \o sep \o b) =>
                         days_result[1] = {ClaimDayIndex[a], ClaimDayIndex[b]}
                  /\ \A c \in ClaimDayNames :
                       days_arg = Some(a \o "-" \o b \o sep \o c) =>
                           days_result[1] = ClaimRange(ClaimDayIndex[a], ClaimDayIndex[b])
                                                \cup {ClaimDayIndex[c]}

\* A wrapped range in a list with a day outside of it, separated by " and ".
C24_Witness ==
    /\ DaysParsed
    /\ days_arg = Some("Fri-Mon and WED")
    /\ days_result[1] = {4, 5, 6, 0, 2}

(***************************************************************************)
(* The forward scan of the window evaluator                                *)
(***************************************************************************)
\* The result of the scan of lines 138-146 for the evaluated arguments.
ClaimScan ==
    NextStartScan(Reference, parse_days_spec(win_days),
                  parse_time_value(win_start, MkTime(6, 0)),
                  parse_time_value(win_end, MkTime(9, 0)), 0)

\* A window starts on day d, on an active day and not before the reference.
UpcomingStart(d) == d % 7 \in ClaimDays /\ DtLessEq(Reference, StartOn(d))

\* C25: for every reference instant, day spec and start and end time the
\* scan over the offsets 0..7 ends having found a day, so the fallback
\* "tomorrow at the start time" is never taken, and next_start is the
\* earliest window start on an active day that is not before the reference.
C25_ScanFindsEarliestStart ==
    Evaluated =>
        /\ ClaimScan # None
        /\ \E d \in Reference.day..(Reference.day + 7) :
             /\ UpcomingStart(d)
             /\ \A e \in 0..(d - 1) : ~UpcomingStart(e)
             /\ evaluation[1].next_start = StartOn(d)

\* The only active day is the day of the reference and its window has
\* started before the reference: the next start is a week ahead.
C25_Witness ==
    /\ Evaluated
    /\ ClaimDays = {6}
    /\ Reference.day % 7 = 6
    /\ DtLess(StartOn(Reference.day), Reference)
    /\ evaluation[1].next_start = StartOn(Reference.day + 7)

(***************************************************************************)
(* No-standing records without a time window, and the taxi/FHV branch      *)
(***************************************************************************)
\* The record triggers the no-standing category, after the street-cleaning
\* test, and a start and an end time are not both resolved.
UntimedNoStanding == ~TriggersCleaning /\ TriggersNoStanding /\ ~TimesResolved

\* The record triggers one of the categories that follow no_standing.
TriggersLater ==
    TriggersLoading \/ TriggersTaxi \/ TriggersFhv \/ TriggersFire \/ TriggersOfficial

\* The rule is the catch-all rule of the record.
IsCatchAll(rule) ==
    /\ rule.type = RecordOrderType
    /\ rule.valid
    /\ rule.active_now = None
    /\ rule.time_left = None
    /\ rule.reason = None

ReachesTaxiBranch ==
    /\ ~TriggersCleaning
    /\ ~(TriggersNoStanding /\ TimesResolved)
    /\ ~TriggersLoading
    /\ TriggersTaxi \/ TriggersFhv

\* C26: a record that reaches the taxi/FHV branch is taxi_only when a taxi
\* trigger matches, valid exactly for a taxi, also when an FHV trigger
\* matches too; otherwise it is fhv_only, valid exactly for an fhv or a taxi.
C26_TaxiFhvValidity ==
    (Classified /\ ReachesTaxiBranch) =>
        /\ TriggersTaxi =>
             /\ classified[1].type = "taxi_only"
             /\ classified[1].valid <=> vehicle.vehicle_type = "taxi"
        /\ ~TriggersTaxi =>
             /\ classified[1].type = "fhv_only"
             /\ classified[1].valid <=> vehicle.vehicle_type \in {"fhv", "taxi"}

\* A for-hire vehicle at a sign with a taxi and an FHV trigger.
C26_Witness ==
    /\ Classified
    /\ ReachesTaxiBranch
    /\ TriggersTaxi /\ TriggersFhv
    /\ vehicle.vehicle_type = "fhv"
    /\ classified[1].type = "taxi_only"
    /\ ~classified[1].valid

(***************************************************************************)
(* The endpoint's decision function and the decision engine                *)
(***************************************************************************)
\* C27: for every rule list the decision function of the /parking-status
\* endpoint returns the status, the risk_score, the primary_reason and the
\* recommended_action that derive_parking_decision returns.
C27_EndpointAgrees ==
    Decided =>
        /\ endpoint_decision[1].status = decision[1].status
        /\ endpoint_decision[1].risk_score = decision[1].risk_score
        /\ endpoint_decision[1].primary_reason = decision[1].primary_reason
        /\ endpoint_decision[1].recommended_action = decision[1].recommended_action

(***************************************************************************)
(* proximity_engine.py: evaluate_hydrant_clearance, and                    *)
(* hydrant_service.py: build_hydrant_rules. Distances are in tenths of a   *)
(* foot and the GPS accuracy in tenths of a metre, the precision to which  *)
(* the lookup rounds its distance.                                         *)
(***************************************************************************)
\* threshold_ft=15.0 (hydrant_service.py line 45), in tenths of a foot.
ThresholdFt == 150

\* gps_accuracy_m >= 10 (hydrant_service.py line 60), in tenths of a metre.
GpsFallbackAccuracy == 100

\* f"{x:.1f}" and f"{x:.0f}" for x given in tenths; a half is rounded to the
\* even neighbour.
FormatOneDecimal(tenths) == ToString(tenths \div 10) \o "." \o ToString(tenths % 10)

FormatNoDecimal(tenths) ==
    LET whole == tenths \div 10
        rest == tenths % 10
    IN  ToString(IF rest > 5 \/ (rest = 5 /\ whole % 2 = 1) THEN whole + 1 ELSE whole)

\* A faulty variant of evaluate_hydrant_clearance: a distance exactly at the
\* threshold is blocked.
evaluate_hydrant_clearance_AtThresholdBlocked(distance_ft, threshold_ft) ==
    LET blocked == distance_ft <= threshold_ft
    IN  [ rule_type |-> "hydrant_proximity",
          distance_ft |-> distance_ft,
          threshold_ft |-> threshold_ft,
          blocked |-> blocked,
          severity |-> IF blocked THEN "high" ELSE "low",
          reason |-> IF blocked
                     THEN "Too close to hydrant: " \o FormatOneDecimal(distance_ft)
                              \o " ft (minimum " \o FormatNoDecimal(threshold_ft) \o " ft)."
                     ELSE "Hydrant clearance ok: " \o FormatOneDecimal(distance_ft)
                              \o " ft from nearest hydrant." ]

\* proximity_engine.py lines 37-57.
evaluate_hydrant_clearance(distance_ft, threshold_ft) ==
    LET blocked == distance_ft < threshold_ft
    IN  [ rule_type |-> "hydrant_proximity",
          distance_ft |-> distance_ft,
          threshold_ft |-> threshold_ft,
          blocked |-> blocked,
          severity |-> IF blocked THEN "high" ELSE "low",
          reason |-> IF blocked
                     THEN "Too close to hydrant: " \o FormatOneDecimal(distance_ft)
                              \o " ft (minimum " \o FormatNoDecimal(threshold_ft) \o " ft)."
                     ELSE "Hydrant clearance ok: " \o FormatOneDecimal(distance_ft)
                              \o " ft from nearest hydrant." ]

\* Lines 44-57: the rule of a resolved distance.
HydrantRule(hydrant_eval, hydrant_source) ==
    [ distance_ft |-> Some(hydrant_eval.distance_ft),
      threshold_ft |-> Some(hydrant_eval.threshold_ft) ]
    @@ SignRule(hydrant_eval.rule_type, "Fire hydrant clearance rule", ~hydrant_eval.blocked,
                hydrant_eval.severity, hydrant_eval.reason, hydrant_source)

\* Lines 60-70: the rule of the GPS fallback.
HydrantUncertainRule(gps_accuracy_m) ==
    SignRule("hydrant_uncertain", "Hydrant proximity uncertain due to GPS accuracy", TRUE,
             "medium",
             "Possible hydrant nearby (GPS accuracy +/-" \o FormatNoDecimal(gps_accuracy_m)
                 \o "m). Check manually.",
             "ParkGuard GPS Fallback")

\* build_hydrant_rules (lines 10-73). `lookup` is what lookup_fn returns when
\* it is called: <<distance, dataset id>>, each None or Some. The result is
\* the rule list and the status of the freshness record.
build_hydrant_rules(hydrant_distance_ft, gps_accuracy_m, lookup) ==
    LET resolved == IF hydrant_distance_ft # None THEN hydrant_distance_ft ELSE lookup[1]
        hydrant_source ==
            IF hydrant_distance_ft = None /\ TruthyStr(lookup[2])
            THEN "NYC Open Data Hydrants (" \o lookup[2][1] \o ")"
            ELSE "ParkGuard Hydrant Proximity (demo scaffold)"
        status == IF hydrant_distance_ft # None THEN "override"
                  ELSE IF TruthyStr(lookup[2]) THEN "lookup_hit" ELSE "lookup_miss"
    IN  IF resolved # None
        THEN [ rules |-> << HydrantRule(evaluate_hydrant_clearance(resolved[1], ThresholdFt),
                                        hydrant_source) >>,
               status |-> status ]
        ELSE IF gps_accuracy_m >= GpsFallbackAccuracy
        THEN [ rules |-> << HydrantUncertainRule(gps_accuracy_m) >>, status |-> "gps_fallback" ]
        ELSE [ rules |-> << >>, status |-> status ]

(***************************************************************************)
(* SpecHydrant: one call of build_hydrant_rules                            *)
(***************************************************************************)
\* Distances of the override and of the lookup, and GPS accuracies, around
\* their thresholds.
HydrantDistances == { 0, 120, 149, 150, 151, 2000 }
GpsAccuracies == { 0, 99, 100, 105, 250 }

\* What lookup_fn returns: find_nearest_hydrant_distance_ft returns no
\* distance and no dataset, or a distance with its dataset.
LookupResults ==
    { << None, None >> }
    \cup { << Some(d), Some("5bgh-vtsn") >> : d \in { 0, 149, 150, 300 } }
    \cup { << None, Some("6pui-xhxz") >>, << Some(150), None >> }

HydrantInputs ==
    { [ hydrant_distance_ft |-> d, gps_accuracy_m |-> g, lookup |-> l ] :
        d \in { None } \cup { Some(x) : x \in HydrantDistances },
        g \in GpsAccuracies, l \in LookupResults }

InitHydrant ==
    /\ hydrant_args \in { Some(a) : a \in HydrantInputs }
    /\ hydrant_rules = None
    /\ DaysIdle /\ WindowIdle /\ EvalIdle /\ ClassifierIdle /\ LoaderIdle /\ CacheIdle
    /\ CountersIdle /\ EndpointIdle

BuildHydrant ==
    /\ hydrant_rules = None
    /\ hydrant_rules' = Some(build_hydrant_rules(hydrant_args[1].hydrant_distance_ft,
                                                 hydrant_args[1].gps_accuracy_m,
                                                 hydrant_args[1].lookup).rules)
    /\ UNCHANGED << days_arg, days_result, now, win_days, win_start, win_end, evaluation,
                    fine_bands, rules, phase, decision, violation_summary,
                    classifierVars, loaderVars, cacheVars, counterVars, hydrant_args,
                    endpoint_decision >>

NextHydrant == BuildHydrant

SpecHydrant == InitHydrant /\ [][NextHydrant]_vars

(***************************************************************************)
(* Properties of the hydrant rule builder                                  *)
(***************************************************************************)
HydrantBuilt == hydrant_rules # None

\* The distance the call resolves: the override, or else the lookup's.
ClaimResolved ==
    IF hydrant_args[1].hydrant_distance_ft # None
    THEN hydrant_args[1].hydrant_distance_ft
    ELSE hydrant_args[1].lookup[1]

\* C21: build_hydrant_rules emits at most one rule. With a resolved distance
\* it is one hydrant_proximity rule, valid exactly when the distance is at
\* least 15 ft, a distance of exactly 15 ft being allowed; without one it is
\* one valid hydrant_uncertain rule when gps_accuracy_m >= 10, and no rule
\* otherwise.
C21_AtMostOneHydrantRule ==
    HydrantBuilt =>
        /\ Len(hydrant_rules[1]) <= 1
        /\ ClaimResolved # None =>
             /\ Len(hydrant_rules[1]) = 1
             /\ hydrant_rules[1][1].type = "hydrant_proximity"
             /\ hydrant_rules[1][1].valid <=> ClaimResolved[1] >= 150
        /\ (ClaimResolved = None /\ hydrant_args[1].gps_accuracy_m >= 100) =>
             /\ Len(hydrant_rules[1]) = 1
             /\ hydrant_rules[1][1].type = "hydrant_uncertain"
             /\ hydrant_rules[1][1].valid
        /\ (ClaimResolved = None /\ hydrant_args[1].gps_accuracy_m < 100) =>
             hydrant_rules[1] = << >>

\* A looked-up distance of exactly 15 ft: one valid hydrant_proximity rule.
C21_Witness ==
    /\ HydrantBuilt
    /\ hydrant_args[1].hydrant_distance_ft = None
    /\ ClaimResolved = Some(150)
    /\ Len(hydrant_rules[1]) = 1
    /\ hydrant_rules[1][1].type = "hydrant_proximity"
    /\ hydrant_rules[1][1].valid

(***************************************************************************)
(* SpecPipeline: one request. The rule list is built by                    *)
(* parse_regulation_record, parse_meter_record and build_hydrant_rules for *)
(* the vehicle and the instant of the request, then enriched and decided.  *)
(***************************************************************************)
PipelineTexts ==
    { "2 Hour Parking", "NO STANDING 7AM-7PM", "No Standing Anytime", "Truck Loading Only",
      "Taxi Stand", "FHV Pickup Zone", "Fire Lane NYPD", "NYPD Official Vehicles Only" }

\* Regulation records: a street-cleaning record with its structured window,
\* and records described by a sign text only.
PipelineRecords ==
    { [ order_type |-> Some("Street Cleaning"), sign_desc |-> Some("2 Hour Parking"),
        description |-> None, time_from |-> Some("06:00"), time_to |-> Some("09:00"),
        days |-> None ] }
    \cup { [ order_type |-> Some("Parking"), sign_desc |-> Some(t), description |-> None,
             time_from |-> None, time_to |-> None, days |-> None ] : t \in PipelineTexts }

PipelineVehicles ==
    { v \in VehicleInputs :
        \/ v.vehicle_type = "passenger" /\ v.agency_affiliation \in {"none", "police"}
        \/ v.vehicle_type = "truck" /\ v.commercial_plate
        \/ v.vehicle_type = "taxi" }

\* Monday at 07:15 and at 12:00.
PipelineNowInputs == { n \in ClassifyNowInputs : n.dt.day = 0 }

\* Arguments of build_hydrant_rules: an override too close and one at the
\* threshold, and a lookup that misses with a poor and with a good GPS fix.
PipelineHydrantInputs ==
    { a \in HydrantInputs :
        /\ a.lookup = << None, None >>
        /\ \/ a.hydrant_distance_ft \in { Some(120), Some(150) } /\ a.gps_accuracy_m = 0
           \/ a.hydrant_distance_ft = None /\ a.gps_accuracy_m \in { 0, 250 } }

InitPipeline ==
    /\ vehicle \in PipelineVehicles
    /\ now \in PipelineNowInputs
    /\ reg = IdleRecord /\ classified = None
    /\ days_arg = None /\ days_result = None
    /\ win_days = None /\ win_start = None /\ win_end = None /\ evaluation = None
    /\ EvalIdle /\ LoaderIdle /\ CacheIdle /\ OthersIdle

\* A rule of parse_regulation_record for the request's instant and vehicle.
AppendRegulationRule ==
    /\ phase = "collect"
    /\ Len(rules) < MaxRules
    /\ \E r \in PipelineRecords : rules' = Append(rules, parse_regulation_record(r, now, vehicle))
    /\ UNCHANGED << days_arg, days_result, now, win_days, win_start, win_end, evaluation,
                    fine_bands, phase, decision, violation_summary >>
    /\ UNCHANGED << classifierVars, loaderVars, cacheVars, counterVars, hydrantVars, endpoint_decision >>

\* The rules of build_hydrant_rules, none or one.
AppendHydrantRules ==
    /\ phase = "collect"
    /\ Len(rules) < MaxRules
    /\ \E a \in PipelineHydrantInputs :
         rules' = rules \o build_hydrant_rules(a.hydrant_distance_ft, a.gps_accuracy_m,
                                               a.lookup).rules
    /\ UNCHANGED << days_arg, days_result, now, win_days, win_start, win_end, evaluation,
                    fine_bands, phase, decision, violation_summary >>
    /\ UNCHANGED << classifierVars, loaderVars, cacheVars, counterVars, hydrantVars, endpoint_decision >>

NextPipeline ==
    AppendRegulationRule \/ AppendMeterRule \/ AppendHydrantRules \/ Enrich \/ Decide

SpecPipeline == InitPipeline /\ [][NextPipeline]_vars

(***************************************************************************)
(* Pricing and decision                                                    *)
(***************************************************************************)
\* The catalog in use is the built-in one.
BuiltInCatalog == fine_bands = Some(FallbackBands)

PricedIndexes == { i \in RuleIndexes : rules[i].violation_estimate # None }

\* C29: with the built-in fine catalog, for every rule list built by
\* parse_regulation_record, parse_meter_record and build_hydrant_rules and
\* then enriched, the decision is blocked if and only if at least one rule
\* carries a violation_estimate.
C29_BlockedIffPriced ==
    (Decided /\ BuiltInCatalog) =>
        (decision[1].status = "blocked" <=> PricedIndexes # {})

\* A blocked decision over a priced and an unpriced rule, and the catalog is
\* the built-in one.
C29_Witness ==
    /\ Decided
    /\ BuiltInCatalog
    /\ decision[1].status = "blocked"
    /\ Len(rules) = 2
    /\ PricedIndexes = {2}
    /\ rules[1].type = "metered"
    /\ rules[2].type = "no_standing"

(***************************************************************************)
(* SpecCacheThreads: threads calling get, set, clear and stats of one      *)
(* TTLCache concurrently (cache_store.py lines 16-69). A thread reads the  *)
(* clock before it asks for the lock (lines 29, 46) and returns after it   *)
(* has released it. All calls use one key.                                 *)
(***************************************************************************)
MaxGets == 3
MaxSeconds == 2
SharedKey == "a"
SharedValue == "rows1"
ThreadTtls == {0, 1}

\* A faulty variant of the lock: it is granted while another thread holds it.
LockFree_Always == TRUE

\* `with self._lock:` is entered when no thread holds the lock.
LockFree == lock = 0

GetCalls == { t \in Threads : cache_pc[t].op = "get" }

\* get(key) is called: now = datetime.now(UTC) (line 29).
GetBegin(t) ==
    /\ cache_pc[t] = IdleCall
    /\ gets_done + Cardinality(GetCalls) < MaxGets
    /\ cache_pc' = [cache_pc EXCEPT ![t] = [op |-> "get", at |-> "lock", now |-> clock]]
    /\ UNCHANGED << hits, misses, expirations, gets_done, lock >>
    /\ UNCHANGED cacheVars
    /\ CacheFrameNoCounters

\* The lock is taken and the entry is looked up (lines 30-31).
GetEnter(t) ==
    /\ cache_pc[t].op = "get" /\ cache_pc[t].at = "lock"
    /\ LockFree
    /\ lock' = t
    /\ cache_pc' = [cache_pc EXCEPT ![t] =
                      [op |-> "get", at |-> "body", now |-> cache_pc[t].now,
                       entry |-> store[SharedKey]]]
    /\ UNCHANGED << hits, misses, expirations, gets_done >>
    /\ UNCHANGED cacheVars
    /\ CacheFrameNoCounters

\* What the locked section of get_with_meta adds to _hits, _misses and
\* _expirations (lines 32-41).
CountGet(entry, at) ==
    IF entry = None THEN [hits |-> 0, misses |-> 1, expirations |-> 0]
    ELSE IF EntryExpired(entry[1], at) THEN [hits |-> 0, misses |-> 1, expirations |-> 1]
    ELSE [hits |-> 1, misses |-> 0, expirations |-> 0]

\* The rest of the locked section (lines 32-41): the counters, the pop of an
\* expired entry, and the release of the lock.
GetLeave(t) ==
    /\ cache_pc[t].op = "get" /\ cache_pc[t].at = "body"
    /\ LET entry == cache_pc[t].entry
           count == CountGet(entry, cache_pc[t].now)
       IN  /\ hits' = hits + count.hits
           /\ misses' = misses + count.misses
           /\ expirations' = expirations + count.expirations
           /\ store' = IF count.expirations = 1
                       THEN [store EXCEPT ![SharedKey] = None]
                       ELSE store
    /\ lock' = 0
    /\ cache_pc' = [cache_pc EXCEPT ![t] = [op |-> "get", at |-> "return"]]
    /\ UNCHANGED << gets_done, clock, last_set, got >>
    /\ CacheFrameNoCounters

\* get_with_meta and get return (lines 24-26).
GetReturn(t) ==
    /\ cache_pc[t].op = "get" /\ cache_pc[t].at = "return"
    /\ gets_done' = gets_done + 1
    /\ cache_pc' = [cache_pc EXCEPT ![t] = IdleCall]
    /\ UNCHANGED << hits, misses, expirations, lock >>
    /\ UNCHANGED cacheVars
    /\ CacheFrameNoCounters

\* set(key, value, ttl_seconds) is called (lines 44-47): it is about to
\* return for ttl_seconds <= 0 and has read the clock otherwise.
SetBegin(t, ttl_seconds) ==
    /\ cache_pc[t] = IdleCall
    /\ cache_pc' = [cache_pc EXCEPT ![t] =
                      IF ttl_seconds <= 0
                      THEN [op |-> "set", at |-> "return"]
                      ELSE [op |-> "set", at |-> "lock",
                            entry |-> _CacheEntry(SharedValue, clock + ttl_seconds, clock)]]
    /\ UNCHANGED << hits, misses, expirations, gets_done, lock >>
    /\ UNCHANGED cacheVars
    /\ CacheFrameNoCounters

\* The locked section of set (lines 48-53), and the return.
SetLeave(t) ==
    /\ cache_pc[t].op = "set"
    /\ IF cache_pc[t].at = "lock"
       THEN /\ LockFree
            /\ store' = [store EXCEPT ![SharedKey] = Some(cache_pc[t].entry)]
       ELSE UNCHANGED store
    /\ cache_pc' = [cache_pc EXCEPT ![t] = IdleCall]
    /\ UNCHANGED << hits, misses, expirations, gets_done, lock >>
    /\ UNCHANGED << clock, last_set, got >>
    /\ CacheFrameNoCounters

\* clear() and stats() are called; neither reads anything before the lock.
ClearBegin(t) ==
    /\ cache_pc[t] = IdleCall
    /\ cache_pc' = [cache_pc EXCEPT ![t] = [op |-> "clear", at |-> "lock"]]
    /\ UNCHANGED << hits, misses, expirations, gets_done, lock >>
    /\ UNCHANGED cacheVars
    /\ CacheFrameNoCounters

StatsBegin(t) ==
    /\ cache_pc[t] = IdleCall
    /\ cache_pc' = [cache_pc EXCEPT ![t] = [op |-> "stats", at |-> "lock"]]
    /\ UNCHANGED << hits, misses, expirations, gets_done, lock >>
    /\ UNCHANGED cacheVars
    /\ CacheFrameNoCounters

\* The locked section of clear (lines 56-57), and the return.
ClearLeave(t) ==
    /\ cache_pc[t].op = "clear"
    /\ LockFree
    /\ store' = [k \in CacheKeys |-> None]
    /\ cache_pc' = [cache_pc EXCEPT ![t] = IdleCall]
    /\ UNCHANGED << hits, misses, expirations, gets_done, lock >>
    /\ UNCHANGED << clock, last_set, got >>
    /\ CacheFrameNoCounters

\* The locked section of stats (lines 60-69), which only reads, and the return.
StatsLeave(t) ==
    /\ cache_pc[t].op = "stats"
    /\ LockFree
    /\ cache_pc' = [cache_pc EXCEPT ![t] = IdleCall]
    /\ UNCHANGED << hits, misses, expirations, gets_done, lock >>
    /\ UNCHANGED cacheVars
    /\ CacheFrameNoCounters

\* A second passes.
SecondPasses ==
    /\ clock < MaxSeconds
    /\ clock' = clock + 1
    /\ UNCHANGED << store, last_set, got >>
    /\ UNCHANGED counterVars
    /\ CacheFrameNoCounters

NextCacheThreads ==
    \/ \E t \in Threads : GetBegin(t)
    \/ \E t \in Threads : GetEnter(t)
    \/ \E t \in Threads : GetLeave(t)
    \/ \E t \in Threads : GetReturn(t)
    \/ \E t \in Threads, ttl_seconds \in ThreadTtls : SetBegin(t, ttl_seconds)
    \/ \E t \in Threads : SetLeave(t)
    \/ \E t \in Threads : ClearBegin(t)
    \/ \E t \in Threads : ClearLeave(t)
    \/ \E t \in Threads : StatsBegin(t)
    \/ \E t \in Threads : StatsLeave(t)
    \/ SecondPasses

SpecCacheThreads == InitCache /\ [][NextCacheThreads]_vars

(***************************************************************************)
(* The counters under concurrent callers                                   *)
(***************************************************************************)
InLockedSection(t) == cache_pc[t].op = "get" /\ cache_pc[t].at = "body"

\* get calls that have released the lock and not yet returned.
GetsReturning == { t \in Threads : cache_pc[t].op = "get" /\ cache_pc[t].at = "return" }

\* A thread in the locked section holds the lock and sees the store as it
\* found it; the lock is held by such a thread only.
LockedSectionAlone ==
    /\ \A t \in Threads :
         InLockedSection(t) => lock = t /\ store[SharedKey] = cache_pc[t].entry
    /\ lock # 0 => lock \in Threads /\ InLockedSection(lock)

CountersUnchanged == UNCHANGED << hits, misses, expirations >>

\* A step that writes the store or a counter is taken by a thread with the
\* lock free or in its own locked section.
WritesUnderLock ==
    (store' # store \/ ~CountersUnchanged) =>
        \E t \in Threads :
            /\ cache_pc'[t] # cache_pc[t]
            /\ lock \in {0, t}

\* _expirations moves by one, in a step of a get that found an entry that
\* had expired at the instant the get read, and the step removes the entry.
ExpiredCountedOnce ==
    expirations' # expirations =>
        /\ expirations' = expirations + 1
        /\ \E t \in Threads :
              /\ InLockedSection(t) /\ cache_pc'[t] # cache_pc[t]
              /\ store[SharedKey] # None
              /\ store[SharedKey][1].expires_at <= cache_pc[t].now
              /\ store'[SharedKey] = None

\* Steps of set and clear leave the counters alone.
SetClearKeepCounters ==
    (\E t \in Threads : cache_pc[t].op \in {"set", "clear"} /\ cache_pc'[t] # cache_pc[t])
        => CountersUnchanged

CounterSteps == WritesUnderLock /\ ExpiredCountedOnce /\ SetClearKeepCounters

\* C30 as stated: hits + misses is the number of get calls that have
\* completed, in every state of every interleaving.
C30_AsStated ==
    /\ [](LockedSectionAlone /\ hits + misses = gets_done /\ expirations <= misses)
    /\ [][CounterSteps]_vars

\* C30: under every interleaving of concurrent get, set, clear and stats
\* calls on one TTLCache, the store and the counters are accessed by one
\* thread at a time, under the lock; hits + misses is the number of get
\* calls that have left their locked section, that is the number of
\* completed get calls plus those that have released the lock and not yet
\* returned; expirations <= misses; an expired entry is counted once, in the
\* step that removes it; set and clear never change the counters.
C30_CountersUnderLock ==
    /\ [](/\ LockedSectionAlone
          /\ hits + misses = gets_done + Cardinality(GetsReturning)
          /\ expirations <= misses)
    /\ [][CounterSteps]_vars

\* A get has counted an expired entry and returned; now a second get is in
\* its locked section while another thread waits for the lock with an entry
\* to set.
C30_Witness ==
    /\ expirations = 1 /\ misses = 1 /\ gets_done = 1
    /\ \E t, u \in Threads :
          /\ InLockedSection(t)
          /\ cache_pc[u].op = "set" /\ cache_pc[u].at = "lock"

====
